---- MODULE Spec2Model ----
(***************************************************************************)
(* Authentication + JWT server (module 5 of the teaching corpus).          *)
(*                                                                         *)
(* The state is the SQLite users table, the wall clock, the requests that  *)
(* are suspended at an await (bcrypt.hash in register, bcrypt.compare in   *)
(* login), the guarded request that passed verifyToken and whose route     *)
(* handler is next on the call stack, and the last response sent.  Every   *)
(* synchronous stretch of a handler is one action; an await splits a       *)
(* handler in two actions, between which other requests may be served.     *)
(***************************************************************************)
EXTENDS Integers, Sequences, FiniteSets, Bags, TLC

\* ------------------------------------------------------------------ bounds

\* Requests that may be suspended at an await at the same time.
MaxInflight == 2
\* Clock advances in one behaviour.
MaxTicks == 2
\* The products server hands out ids below this.
MaxNextId == 7

\* ------------------------------------------------------- program constants

\* jwt.sign(payload, JWT_SECRET, { expiresIn: '24h' }), in seconds.
TokenTTL == 86400
\* jwt.sign(demoPayload, JWT_SECRET, { expiresIn: '1h' }), in seconds.
DemoTTL == 3600
\* if (password.length < 6)
MinPasswordLength == 6
\* demoPayload.userId
DemoUserId == 123

JWT_SECRET == "your-secret-key-change-this-in-production"
\* A key the server does not use: what a client signs a forged token with.
OtherSecret == "some-other-secret"

\* ------------------------------------------------------------ input values

\* A field absent from the JSON body (undefined; "" is as falsy).
Missing == ""
None == [none |-> TRUE]

Usernames == {"alice", "bob"}
Emails == {"alice@example.com", "bob@example.com"}
\* Lengths 5 and 6.
Passwords == {"abcde", "secret"}
\* bcrypt draws a random salt for every hash.
Salts == {"saltA"}

REGISTER == "POST /api/register"
LOGIN == "POST /api/login"
PROFILE == "GET /api/profile"
USERS == "GET /api/users"
DECODE_DEMO == "GET /api/decode-demo"
GuardedRoutes == {PROFILE, USERS}

VARIABLES users, now, ticks, inflight, cur, last, console, held, loggedIn,
          products, nextId, reply,
          requestCount, received, served,
          areq,
          db, server, sqlReply

\* The authentication server and its clients.
authVars == <<users, now, ticks, inflight, cur, last, console, held, loggedIn>>

\* The products server: its array, its id counter, and the last request it
\* answered with the response.
productVars == <<products, nextId, reply>>

\* The routing server: its request counter, the number of requests that
\* reached it, and the last request it served with the layers that ran.
routingVars == <<requestCount, received, served>>

\* The servers other than the authentication and the products server.
\* The async server: the request it is serving, with the handler's position,
\* the timers and fetches it started and the responses it sent.
asyncVars == <<areq>>

\* The SQL server: the tables of database.db with their AUTOINCREMENT
\* counters, whether the process is up, and the last request it answered.
sqlVars == <<db, server, sqlReply>>

otherVars == <<routingVars, asyncVars, sqlVars>>

vars == <<authVars, productVars, otherVars>>

\* ------------------------------------------------------------------ bcrypt

\* bcrypt.hash(password, 10) with the salt it drew: a salted one-way digest,
\* which is not the password and differs between salts and passwords.
bcryptHash(password, salt) == [alg |-> "$2b$10$", salt |-> salt, digest |-> <<salt, password>>]

\* bcrypt.compare(password, hash): rehash with the salt kept in the hash.
bcryptCompare(password, hash) == bcryptHash(password, hash.salt) = hash

\* --------------------------------------------------------------- the table

\* SELECT * FROM users WHERE username = ? OR email = ?  (.get: first row or none)
selectByUsernameOrEmail(tbl, username, email) ==
    LET hits == {i \in 1..Len(tbl) : tbl[i].username = username \/ tbl[i].email = email}
    IN IF hits = {} THEN None ELSE tbl[CHOOSE i \in hits : \A j \in hits : i <= j]

\* SELECT * FROM users WHERE username = ?
selectByUsername(tbl, username) ==
    LET hits == {i \in 1..Len(tbl) : tbl[i].username = username}
    IN IF hits = {} THEN None ELSE tbl[CHOOSE i \in hits : \A j \in hits : i <= j]

\* The columns the guarded routes select: no password_hash.
publicColumns(row) ==
    [id |-> row.id, username |-> row.username, email |-> row.email, created_at |-> row.created_at]

\* SELECT id, username, email, created_at FROM users WHERE id = ?
selectPublicById(tbl, id) ==
    LET hits == {i \in 1..Len(tbl) : tbl[i].id = id}
    IN IF hits = {} THEN None ELSE publicColumns(tbl[CHOOSE i \in hits : TRUE])

\* SELECT id, username, email, created_at FROM users
selectAllPublic(tbl) == [i \in 1..Len(tbl) |-> publicColumns(tbl[i])]

\* id INTEGER PRIMARY KEY AUTOINCREMENT: one more than the largest id; rows
\* are never deleted, so that is also the largest id ever used.
nextRowid(tbl) ==
    LET ids == {tbl[i].id : i \in 1..Len(tbl)}
    IN IF ids = {} THEN 1 ELSE 1 + CHOOSE m \in ids : \A k \in ids : k <= m

\* ------------------------------------------------------------ jsonwebtoken

\* The HMAC over the encoded header and claims under a key.
hmac(claims, secret) == [over |-> claims, key |-> secret]

\* jwt.sign(payload, secret, { expiresIn }): the payload with iat and exp
\* added, and the signature over it.
jwtSign(payload, secret, ttl, t) ==
    LET claims == payload @@ [iat |-> t, exp |-> t + ttl]
    IN [claims |-> claims, sig |-> hmac(claims, secret)]

\* A string that is not three dot-separated segments.
GarbageToken == [garbage |-> TRUE]

JwtError(message) == [ok |-> FALSE, message |-> message]

\* jwt.verify(token, secret): throws (ok = FALSE) or returns the claims.
jwtVerify(token, secret, t) ==
    IF token = GarbageToken THEN JwtError("jwt malformed")
    ELSE IF token.sig # hmac(token.claims, secret) THEN JwtError("invalid signature")
    ELSE IF t >= token.claims.exp THEN JwtError("jwt expired")
    ELSE [ok |-> TRUE, claims |-> token.claims]

\* ---------------------------------------------------------------- responses

Response(status, body) == [status |-> status, body |-> body]

\* ------------------------------------------------------ POST /api/register

RegisterFieldsRequired ==
    Response(400, [error |-> "Validation failed",
                   message |-> "Username, email, and password are required"])

RegisterPasswordTooShort ==
    Response(400, [error |-> "Validation failed",
                   message |-> "Password must be at least 6 characters long"])

RegisterUserExists ==
    Response(400, [error |-> "User already exists",
                   message |-> "Username or email is already taken"])

RegisterCreated(id, username, email) ==
    Response(201, [message |-> "User registered successfully",
                   user |-> [id |-> id, username |-> username, email |-> email],
                   nextStep |-> "Login at /api/login to receive your token"])

RegisterFailed(message) ==
    Response(500, [error |-> "Registration failed", message |-> message])

\* registerCheck whose query looks the username up and forgets the email.
registerCheck_UsernameOnly(tbl, username, email, password) ==
    IF username = Missing \/ email = Missing \/ password = Missing
    THEN [suspend |-> FALSE, res |-> RegisterFieldsRequired]
    ELSE IF Len(password) < MinPasswordLength
    THEN [suspend |-> FALSE, res |-> RegisterPasswordTooShort]
    ELSE IF selectByUsername(tbl, username) # None
    THEN [suspend |-> FALSE, res |-> RegisterUserExists]
    ELSE [suspend |-> TRUE]

\* registerCheck whose length test is off by one: a password of exactly the
\* minimum length is refused.
registerCheck_MinExcluded(tbl, username, email, password) ==
    IF username = Missing \/ email = Missing \/ password = Missing
    THEN [suspend |-> FALSE, res |-> RegisterFieldsRequired]
    ELSE IF Len(password) <= MinPasswordLength
    THEN [suspend |-> FALSE, res |-> RegisterPasswordTooShort]
    ELSE IF selectByUsernameOrEmail(tbl, username, email) # None
    THEN [suspend |-> FALSE, res |-> RegisterUserExists]
    ELSE [suspend |-> TRUE]

\* STEP 1 and STEP 2, up to the await: a response, or the request goes on
\* to hash the password.
registerCheck(tbl, username, email, password) ==
    IF username = Missing \/ email = Missing \/ password = Missing
    THEN [suspend |-> FALSE, res |-> RegisterFieldsRequired]
    ELSE IF Len(password) < MinPasswordLength
    THEN [suspend |-> FALSE, res |-> RegisterPasswordTooShort]
    ELSE IF selectByUsernameOrEmail(tbl, username, email) # None
    THEN [suspend |-> FALSE, res |-> RegisterUserExists]
    ELSE [suspend |-> TRUE]

\* insertUser on a table whose columns were declared without UNIQUE.
insertUser_NoUnique(tbl, username, email, hash, t) ==
    [ok |-> TRUE,
     lastInsertRowid |-> nextRowid(tbl),
     tbl |-> Append(tbl, [id |-> nextRowid(tbl), username |-> username,
                          email |-> email, password_hash |-> hash,
                          created_at |-> t])]

\* insertUser written as INSERT OR REPLACE: the rows that hold the username
\* or the email are deleted and the new row takes their place.
insertUser_OrReplace(tbl, username, email, hash, t) ==
    [ok |-> TRUE,
     lastInsertRowid |-> nextRowid(tbl),
     tbl |-> Append(SelectSeq(tbl, LAMBDA row : row.username # username /\ row.email # email),
                    [id |-> nextRowid(tbl), username |-> username,
                     email |-> email, password_hash |-> hash,
                     created_at |-> t])]

\* INSERT INTO users (username, email, password_hash) VALUES (?, ?, ?) under
\* the table's UNIQUE columns; created_at DEFAULT CURRENT_TIMESTAMP.
insertUser(tbl, username, email, hash, t) ==
    IF \E i \in 1..Len(tbl) : tbl[i].username = username
    THEN [ok |-> FALSE, message |-> "UNIQUE constraint failed: users.username"]
    ELSE IF \E i \in 1..Len(tbl) : tbl[i].email = email
    THEN [ok |-> FALSE, message |-> "UNIQUE constraint failed: users.email"]
    ELSE [ok |-> TRUE,
          lastInsertRowid |-> nextRowid(tbl),
          tbl |-> Append(tbl, [id |-> nextRowid(tbl), username |-> username,
                               email |-> email, password_hash |-> hash,
                               created_at |-> t])]

\* registerInsert whose catch cleans up after the failed insert by deleting
\* the rows with the request's username.
registerInsert_DeletesOnError(tbl, username, email, hash, t) ==
    LET result == insertUser(tbl, username, email, hash, t)
    IN IF result.ok
       THEN [tbl |-> result.tbl,
             res |-> RegisterCreated(result.lastInsertRowid, username, email)]
       ELSE [tbl |-> SelectSeq(tbl, LAMBDA row : row.username # username),
             res |-> RegisterFailed(result.message)]

\* STEP 4, after the await: the insert, the 201, and the catch's 500.
registerInsert(tbl, username, email, hash, t) ==
    LET result == insertUser(tbl, username, email, hash, t)
    IN IF result.ok
       THEN [tbl |-> result.tbl,
             res |-> RegisterCreated(result.lastInsertRowid, username, email)]
       ELSE [tbl |-> tbl, res |-> RegisterFailed(result.message)]

\* --------------------------------------------------------- POST /api/login

LoginFieldsRequired ==
    Response(400, [error |-> "Validation failed",
                   message |-> "Username and password are required"])

LoginUnknownUser ==
    Response(401, [error |-> "Authentication failed",
                   message |-> "Invalid username or password"])

LoginWrongPassword ==
    Response(401, [error |-> "Authentication failed",
                   message |-> "Invalid username or password"])

LoginOk(token, user) ==
    Response(200, [message |-> "Login successful",
                   token |-> token,
                   expiresIn |-> "24h",
                   user |-> [id |-> user.id, username |-> user.username, email |-> user.email],
                   howToUse |-> "Include this token in the Authorization header: Bearer <token>"])

\* STEP 1 and STEP 2, up to the await: a response, or the request goes on
\* to compare the password with the row it found.
loginLookup(tbl, username, password) ==
    IF username = Missing \/ password = Missing
    THEN [suspend |-> FALSE, res |-> LoginFieldsRequired]
    ELSE IF selectByUsername(tbl, username) = None
    THEN [suspend |-> FALSE, res |-> LoginUnknownUser]
    ELSE [suspend |-> TRUE, user |-> selectByUsername(tbl, username)]

\* loginVerify that tells the client which factor failed.
loginVerify_SaysWrongPassword(user, password, t) ==
    IF ~bcryptCompare(password, user.password_hash)
    THEN Response(401, [error |-> "Authentication failed", message |-> "Wrong password"])
    ELSE LoginOk(jwtSign([userId |-> user.id, username |-> user.username,
                          email |-> user.email], JWT_SECRET, TokenTTL, t),
                 user)

\* loginVerify that signs with a key the guard does not verify with.
loginVerify_OtherKey(user, password, t) ==
    IF ~bcryptCompare(password, user.password_hash)
    THEN LoginWrongPassword
    ELSE LoginOk(jwtSign([userId |-> user.id, username |-> user.username,
                          email |-> user.email], OtherSecret, TokenTTL, t),
                 user)

\* loginVerify that issues the token with the demo route's lifetime.
loginVerify_DemoLifetime(user, password, t) ==
    IF ~bcryptCompare(password, user.password_hash)
    THEN LoginWrongPassword
    ELSE LoginOk(jwtSign([userId |-> user.id, username |-> user.username,
                          email |-> user.email], JWT_SECRET, DemoTTL, t),
                 user)

\* STEP 3 and STEP 4, after the await.
loginVerify(user, password, t) ==
    IF ~bcryptCompare(password, user.password_hash)
    THEN LoginWrongPassword
    ELSE LoginOk(jwtSign([userId |-> user.id, username |-> user.username,
                          email |-> user.email], JWT_SECRET, TokenTTL, t),
                 user)

\* The whole login handler on a table that does not change under it.
loginResponse(tbl, username, password, t) ==
    LET c == loginLookup(tbl, username, password)
    IN IF c.suspend THEN loginVerify(c.user, password, t) ELSE c.res

\* ------------------------------------------------- the Authorization header

\* A header value is a string: here the sequence of its pieces, each a space,
\* a word without spaces, or a token (which holds no space either).
SP == [kind |-> "space"]
Word(text) == [kind |-> "word", text |-> text]
Tok(token) == [kind |-> "token", token |-> token]

\* No Authorization header in the request (req.headers.authorization is undefined).
NoHeader == <<>>

\* authHeader.split(' '): the pieces between the spaces, empty ones included.
RECURSIVE splitFrom(_, _, _)
splitFrom(header, i, part) ==
    IF i > Len(header) THEN <<part>>
    ELSE IF header[i] = SP THEN <<part>> \o splitFrom(header, i + 1, <<>>)
    ELSE splitFrom(header, i + 1, Append(part, header[i]))

split(header) == splitFrom(header, 1, <<>>)

\* The string a part spells, as jwt.verify reads it: a token when the part is
\* one token, and otherwise no JWT at all.
asToken(part) ==
    IF Len(part) = 1 /\ part[1].kind = "token" THEN part[1].token ELSE GarbageToken

\* ------------------------------------------------------------- verifyToken

NoTokenProvided ==
    Response(401, [error |-> "Access denied",
                   message |-> "No token provided. Please login first."])

InvalidTokenFormat ==
    Response(401, [error |-> "Access denied",
                   message |-> "Invalid token format. Use: Bearer <token>"])

InvalidOrExpiredToken ==
    Response(401, [error |-> "Invalid token",
                   message |-> "Token is invalid or expired. Please login again."])

\* verifyToken whose catch block sends the 401 and then falls through to next().
verifyToken_NoReturn(header, t) ==
    IF header = NoHeader
    THEN [next |-> FALSE, res |-> NoTokenProvided, user |-> None]
    ELSE LET parts == split(header)
             token == IF Len(parts) >= 2 THEN parts[2] ELSE <<>>
         IN IF token = <<>>
            THEN [next |-> FALSE, res |-> InvalidTokenFormat, user |-> None]
            ELSE LET decoded == jwtVerify(asToken(token), JWT_SECRET, t)
                 IN IF decoded.ok
                    THEN [next |-> TRUE, res |-> None, user |-> decoded.claims]
                    ELSE [next |-> TRUE, res |-> InvalidOrExpiredToken, user |-> None]

\* verifyToken that reads the claims with jwt.decode, which checks nothing.
verifyToken_DecodeOnly(header, t) ==
    IF header = NoHeader
    THEN [next |-> FALSE, res |-> NoTokenProvided, user |-> None]
    ELSE LET parts == split(header)
             token == IF Len(parts) >= 2 THEN parts[2] ELSE <<>>
         IN IF token = <<>>
            THEN [next |-> FALSE, res |-> InvalidTokenFormat, user |-> None]
            ELSE IF asToken(token) # GarbageToken
                 THEN [next |-> TRUE, res |-> None, user |-> asToken(token).claims]
                 ELSE [next |-> FALSE, res |-> InvalidOrExpiredToken, user |-> None]

\* verifyToken that answers a request without a header 403 instead of 401.
verifyToken_Forbidden(header, t) ==
    IF header = NoHeader
    THEN [next |-> FALSE, res |-> Response(403, NoTokenProvided.body), user |-> None]
    ELSE LET parts == split(header)
             token == IF Len(parts) >= 2 THEN parts[2] ELSE <<>>
         IN IF token = <<>>
            THEN [next |-> FALSE, res |-> InvalidTokenFormat, user |-> None]
            ELSE LET decoded == jwtVerify(asToken(token), JWT_SECRET, t)
                 IN IF decoded.ok
                    THEN [next |-> TRUE, res |-> None, user |-> decoded.claims]
                    ELSE [next |-> FALSE, res |-> InvalidOrExpiredToken, user |-> None]

\* verifyToken of a server that keeps one session per account: a later
\* successful login revokes the tokens issued before it.
verifyToken_RevokedByLaterLogin(header, t) ==
    IF header = NoHeader
    THEN [next |-> FALSE, res |-> NoTokenProvided, user |-> None]
    ELSE LET parts == split(header)
             token == IF Len(parts) >= 2 THEN parts[2] ELSE <<>>
         IN IF token = <<>>
            THEN [next |-> FALSE, res |-> InvalidTokenFormat, user |-> None]
            ELSE LET decoded == jwtVerify(asToken(token), JWT_SECRET, t)
                     revoked == /\ last # None
                                /\ last.req.route = LOGIN
                                /\ last.res.status = 200
                                /\ last.res.body.token # asToken(token)
                 IN IF decoded.ok /\ ~revoked
                    THEN [next |-> TRUE, res |-> None, user |-> decoded.claims]
                    ELSE [next |-> FALSE, res |-> InvalidOrExpiredToken, user |-> None]

\* The middleware: either it sends a response (res) and returns, or it sets
\* req.user (user) and calls next().
verifyToken(header, t) ==
    IF header = NoHeader
    THEN [next |-> FALSE, res |-> NoTokenProvided, user |-> None]
    ELSE LET parts == split(header)
             token == IF Len(parts) >= 2 THEN parts[2] ELSE <<>>
         IN IF token = <<>>
            THEN [next |-> FALSE, res |-> InvalidTokenFormat, user |-> None]
            ELSE LET decoded == jwtVerify(asToken(token), JWT_SECRET, t)
                 IN IF decoded.ok
                    THEN [next |-> TRUE, res |-> None, user |-> decoded.claims]
                    ELSE [next |-> FALSE, res |-> InvalidOrExpiredToken, user |-> None]

\* -------------------------------------------------------- guarded handlers

UserNotFound == Response(404, [error |-> "User not found"])

\* Express's answer when a handler throws (req.user undefined).
HandlerThrew == Response(500, [error |-> "Internal Server Error"])

\* profileHandler whose query has lost its WHERE clause: the first row of
\* the table, whoever asks.
profileHandler_NoWhere(tbl, user) ==
    IF user = None THEN HandlerThrew
    ELSE IF Len(tbl) = 0 THEN UserNotFound
    ELSE Response(200, [message |-> "Profile retrieved successfully",
                        note |-> "This is a protected route - only accessible with a valid token",
                        user |-> publicColumns(tbl[1]),
                        tokenInfo |-> [userId |-> user.userId,
                                       username |-> user.username,
                                       tokenIssuedAt |-> user.iat]])

\* GET /api/profile
profileHandler(tbl, user) ==
    IF user = None THEN HandlerThrew
    ELSE LET row == selectPublicById(tbl, user.userId)
         IN IF row = None THEN UserNotFound
            ELSE Response(200, [message |-> "Profile retrieved successfully",
                                note |-> "This is a protected route - only accessible with a valid token",
                                user |-> row,
                                tokenInfo |-> [userId |-> user.userId,
                                               username |-> user.username,
                                               tokenIssuedAt |-> user.iat]])

\* GET /api/users
usersHandler(tbl, user) ==
    IF user = None THEN HandlerThrew
    ELSE Response(200, [message |-> "All users retrieved (protected route)",
                        requestedBy |-> user.username,
                        count |-> Len(tbl),
                        users |-> selectAllPublic(tbl)])

\* GET /api/decode-demo
decodeDemo(t) ==
    LET demoToken == jwtSign([userId |-> DemoUserId, username |-> "demo_user", role |-> "admin"],
                             JWT_SECRET, DemoTTL, t)
    IN Response(200, [message |-> "JWT Token Structure Demo",
                      fullToken |-> demoToken,
                      part2_payload |-> demoToken.claims,
                      part3_signature |-> demoToken.sig])

\* -------------------------------------------------------------- the console

\* One line written to the process's console: its text and the values
\* printed in it.
consoleLine(text, values) == [text |-> text, values |-> values]

\* The values bound to a statement's ? parameters.  A digest is bound as a
\* string like the others; it is kept apart here because the model's
\* digests are records.
SqlText(s) == [kind |-> "text", text |-> s]
SqlInteger(n) == [kind |-> "integer", integer |-> n]
SqlDigest(hash) == [kind |-> "digest", digest |-> hash]

\* new Database('auth.db', { verbose: console.log }): the database hands
\* every statement it executes to console.log, as the expanded SQL, the
\* bound values in the place of the ? parameters.
verbose(sql, params) == consoleLine(sql, params)

\* The logger middleware: the method and the url of every request.
requestLine(route) == consoleLine(route, <<>>)

\* What register writes up to its first response or its await, c being the
\* outcome of registerCheck.
registerArrivalLog(c, username, email) ==
    LET looked == c.suspend \/ c.res = RegisterUserExists
    IN <<requestLine(REGISTER)>>
       \o (IF looked
           THEN <<verbose("SELECT * FROM users WHERE username = ? OR email = ?",
                          <<SqlText(username), SqlText(email)>>)>>
           ELSE <<>>)
       \o (IF c.suspend THEN <<consoleLine("Hashing password...", <<>>)>> ELSE <<>>)

\* What register writes after its await, result being the outcome of
\* insertUser.
registerResumeLog(result, username, email, hash) ==
    <<verbose("INSERT INTO users (username, email, password_hash) VALUES (?, ?, ?)",
              <<SqlText(username), SqlText(email), SqlDigest(hash)>>)>>
    \o (IF result.ok
        THEN <<consoleLine("User registered successfully", <<>>)>>
        ELSE <<consoleLine("Registration error:", <<SqlText(result.message)>>)>>)

\* What login writes up to its first response or its await, c being the
\* outcome of loginLookup.
loginArrivalLog(c, username) ==
    LET looked == c.suspend \/ c.res # LoginFieldsRequired
    IN <<requestLine(LOGIN)>>
       \o (IF looked
           THEN <<verbose("SELECT * FROM users WHERE username = ?", <<SqlText(username)>>)>>
           ELSE <<>>)
       \o (IF c.suspend THEN <<consoleLine("Verifying password...", <<>>)>> ELSE <<>>)

\* What login writes after its await, res being the response.
loginResumeLog(res) ==
    IF res.status = 200
    THEN <<consoleLine("Login successful, token generated", <<>>)>>
    ELSE <<>>

\* What the middleware writes: the message of the error jwt.verify threw.
verifyTokenLog(header, t) ==
    LET parts == split(header)
        token == IF Len(parts) >= 2 THEN parts[2] ELSE <<>>
    IN IF header = NoHeader \/ token = <<>> THEN <<>>
       ELSE LET decoded == jwtVerify(asToken(token), JWT_SECRET, t)
            IN IF decoded.ok THEN <<>>
               ELSE <<consoleLine("Token verification failed:", <<SqlText(decoded.message)>>)>>

\* What the profile handler writes: its query.
profileLog(user) ==
    IF user = None THEN <<>>
    ELSE <<verbose("SELECT id, username, email, created_at FROM users WHERE id = ?",
                   <<SqlInteger(user.userId)>>)>>

\* What the list handler writes: its query.
usersLog(user) ==
    IF user = None THEN <<>>
    ELSE <<verbose("SELECT id, username, email, created_at FROM users", <<>>)>>

\* ------------------------------------------------------------- the clients

\* A token a client made itself: claims of its choosing under a key of its own.
ForgedToken(t) ==
    jwtSign([userId |-> 1, username |-> "alice", email |-> "alice@example.com"],
            OtherSecret, TokenTTL, t)

\* A token the server signed, its expiry pushed back by the client, its
\* signature kept.
Tampered(token) ==
    [token EXCEPT !.claims = [token.claims EXCEPT !.exp = token.claims.exp + TokenTTL]]

\* The tokens a client may present now.
PresentableTokens ==
    {GarbageToken, ForgedToken(now)}
        \cup (IF held = None THEN {} ELSE {held, Tampered(held)})

\* The Authorization headers a client may send with token k: the documented
\* form, another scheme, a third part, two spaces, and the token alone.
HeadersWith(k) ==
    { <<Word("Bearer"), SP, Tok(k)>>,
      <<Word("Basic"), SP, Tok(k)>>,
      <<Word("Bearer"), SP, Tok(k), SP, Word("extra")>>,
      <<Word("Bearer"), SP, SP, Tok(k)>>,
      <<Tok(k)>> }

Headers ==
    {NoHeader, <<Word("Bearer")>>}
        \cup {<<Word("Bearer"), SP, Tok(k)>> : k \in PresentableTokens}
        \cup (IF held = None THEN HeadersWith(GarbageToken) ELSE HeadersWith(held))

\* ====================================================== the products server

\* ---------------------------------------------------------- JavaScript values

\* A field of a JSON body: absent (undefined), a string, a number (held in
\* hundredths: 29.99 is 2999), or a boolean.
Undefined == [undefined |-> TRUE]
JsString(s) == [string |-> s]
JsNumber(hundredths) == [number |-> hundredths]
JsBoolean(b) == [boolean |-> b]
NaN == [nan |-> TRUE]

\* !v
falsy(v) ==
    \/ v = Undefined
    \/ v = JsString("")
    \/ v = JsNumber(0)
    \/ v = NaN
    \/ v = JsBoolean(FALSE)

DigitChars == <<"0", "1", "2", "3", "4", "5", "6", "7", "8", "9">>

isDigit(c) == \E d \in 1..10 : DigitChars[d] = c

digitValue(c) == (CHOOSE d \in 1..10 : DigitChars[d] = c) - 1

\* The character of the string s at i.
charAt(s, i) == SubSeq(s, i, i)

\* The values of the longest run of digits of the string s that starts at i.
RECURSIVE digitsFrom(_, _)
digitsFrom(s, i) ==
    IF i > Len(s) \/ ~isDigit(charAt(s, i)) THEN <<>>
    ELSE <<digitValue(charAt(s, i))>> \o digitsFrom(s, i + 1)

\* The number the digits write in base ten.
RECURSIVE decimalValue(_)
decimalValue(digits) ==
    IF digits = <<>> THEN 0
    ELSE 10 * decimalValue(SubSeq(digits, 1, Len(digits) - 1)) + digits[Len(digits)]

\* parseInt(string): the integer its leading digits write, NaN without any.
\* (No sign, blank or 0x prefix among the inputs.)
parseInt(s) ==
    LET digits == digitsFrom(s, 1)
    IN IF digits = <<>> THEN NaN ELSE JsNumber(100 * decimalValue(digits))

\* parseFloat(v): a number as it is, a string by its leading decimal number,
\* NaN without one; anything else is turned into a string first, and none
\* of "undefined", "true", "false" starts with a number.  (No sign, blank or
\* exponent among the inputs, and at most two decimals.)
parseFloat(v) ==
    IF "number" \in DOMAIN v THEN v
    ELSE IF "string" \notin DOMAIN v THEN NaN
    ELSE LET s == v.string
             whole == digitsFrom(s, 1)
             dot == Len(whole) + 1
             decimals == IF dot <= Len(s) /\ charAt(s, dot) = "."
                         THEN digitsFrom(s, dot + 1) ELSE <<>>
             tenths == IF Len(decimals) >= 1 THEN decimals[1] ELSE 0
             hundredths == IF Len(decimals) >= 2 THEN decimals[2] ELSE 0
         IN IF whole = <<>> /\ decimals = <<>> THEN NaN
            ELSE JsNumber(100 * decimalValue(whole) + 10 * tenths + hundredths)

\* ------------------------------------------------------------------ data.js

\* let products = [ ... ]
InitialProducts ==
    << [id |-> 1, name |-> JsString("Laptop"),
        price |-> JsNumber(99999), inStock |-> JsBoolean(TRUE)],
       [id |-> 2, name |-> JsString("Mouse"),
        price |-> JsNumber(2999), inStock |-> JsBoolean(TRUE)],
       [id |-> 3, name |-> JsString("Keyboard"),
        price |-> JsNumber(7999), inStock |-> JsBoolean(FALSE)],
       [id |-> 4, name |-> JsString("Monitor"),
        price |-> JsNumber(29999), inStock |-> JsBoolean(TRUE)] >>

\* let nextId = 5
InitialNextId == 5

\* getNextId that counts the products instead of keeping a counter:
\* products.length + 1.
getNextId_FromLength(n) == [id |-> Len(products) + 1, nextId |-> n + 1]

\* getNextId: () => nextId++ : the id handed out and the counter after it.
getNextId(n) == [id |-> n, nextId |-> n + 1]

\* products.find(p => p.id === id) / products.findIndex(...): the index of
\* the first product with the id, 0 for none (the code's -1).
findIndex(list, id) ==
    LET hits == {i \in 1..Len(list) : JsNumber(100 * list[i].id) = id}
    IN IF hits = {} THEN 0 ELSE CHOOSE i \in hits : \A k \in hits : i <= k

\* list.splice(index, 1): the list without its element at index.
splice(list, index) ==
    SubSeq(list, 1, index - 1) \o SubSeq(list, index + 1, Len(list))

\* ---------------------------------------------------------------- handlers

ProductNotFound(id) ==
    Response(404, [error |-> "Product not found",
                   message |-> <<"No product exists with ID", id>>])

InvalidData ==
    Response(400, [error |-> "Invalid data",
                   message |-> "Name and price are required fields"])

\* GET /api/products
getProducts(list) == Response(200, list)

\* GET /api/products/:id
getProduct(list, idParam) ==
    LET id == parseInt(idParam)
        index == findIndex(list, id)
    IN IF index # 0 THEN Response(200, list[index]) ELSE ProductNotFound(id)

\* postProduct that takes the id before it validates the body: a refused
\* request uses an id up.
postProduct_IdFirst(list, n, body) ==
    LET id == getNextId(n).id
    IN IF falsy(body.name) \/ body.price = Undefined
       THEN [products |-> list, nextId |-> getNextId(n).nextId, res |-> InvalidData]
       ELSE LET newProduct == [id |-> id,
                               name |-> body.name,
                               price |-> parseFloat(body.price),
                               inStock |-> IF body.inStock # Undefined THEN body.inStock
                                           ELSE JsBoolean(TRUE)]
            IN [products |-> Append(list, newProduct),
                nextId |-> getNextId(n).nextId,
                res |-> Response(201, [message |-> "Product created successfully",
                                       product |-> newProduct])]

\* POST /api/products: the list and the counter after it, and the response.
postProduct(list, n, body) ==
    IF falsy(body.name) \/ body.price = Undefined
    THEN [products |-> list, nextId |-> n, res |-> InvalidData]
    ELSE LET newProduct == [id |-> getNextId(n).id,
                            name |-> body.name,
                            price |-> parseFloat(body.price),
                            inStock |-> IF body.inStock # Undefined THEN body.inStock
                                        ELSE JsBoolean(TRUE)]
         IN [products |-> Append(list, newProduct),
             nextId |-> getNextId(n).nextId,
             res |-> Response(201, [message |-> "Product created successfully",
                                    product |-> newProduct])]

\* putProduct that replaces the product by the body: the fields the body
\* leaves out are lost.
putProduct_Replace(list, idParam, body) ==
    LET id == parseInt(idParam)
        index == findIndex(list, id)
    IN IF index = 0
       THEN [products |-> list, res |-> ProductNotFound(id)]
       ELSE LET updated == [id |-> list[index].id,
                            name |-> body.name,
                            price |-> IF body.price # Undefined THEN parseFloat(body.price)
                                      ELSE Undefined,
                            inStock |-> body.inStock]
            IN [products |-> [list EXCEPT ![index] = updated],
                res |-> Response(200, [message |-> "Product updated successfully",
                                       product |-> updated])]

\* PUT /api/products/:id: the list after it, and the response.
putProduct(list, idParam, body) ==
    LET id == parseInt(idParam)
        index == findIndex(list, id)
    IN IF index = 0
       THEN [products |-> list, res |-> ProductNotFound(id)]
       ELSE LET old == list[index]
                updated == [id |-> old.id,
                            name |-> IF body.name # Undefined THEN body.name ELSE old.name,
                            price |-> IF body.price # Undefined THEN parseFloat(body.price)
                                      ELSE old.price,
                            inStock |-> IF body.inStock # Undefined THEN body.inStock
                                        ELSE old.inStock]
            IN [products |-> [list EXCEPT ![index] = updated],
                res |-> Response(200, [message |-> "Product updated successfully",
                                       product |-> updated])]

\* deleteProduct that hands splice the id where the index belongs.
deleteProduct_SpliceById(list, idParam) ==
    LET id == parseInt(idParam)
        index == findIndex(list, id)
    IN IF index = 0
       THEN [products |-> list, res |-> ProductNotFound(id)]
       ELSE [products |-> splice(list, list[index].id + 1),
             res |-> Response(200, [message |-> "Product deleted successfully",
                                    product |-> list[index]])]

\* DELETE /api/products/:id: the list after it, and the response.
deleteProduct(list, idParam) ==
    LET id == parseInt(idParam)
        index == findIndex(list, id)
    IN IF index = 0
       THEN [products |-> list, res |-> ProductNotFound(id)]
       ELSE [products |-> splice(list, index),
             res |-> Response(200, [message |-> "Product deleted successfully",
                                    product |-> list[index]])]

\* ------------------------------------------------------------------ actions

Init ==
    /\ users = <<>>
    /\ now = 0
    /\ ticks = 0
    /\ inflight = EmptyBag
    /\ cur = None
    /\ last = None
    /\ console = <<>>
    /\ held = None
    /\ loggedIn = FALSE
    /\ products = InitialProducts
    /\ nextId = InitialNextId
    /\ reply = None
    /\ requestCount = 0
    /\ received = 0
    /\ served = None
    /\ areq = None
    /\ db = None
    /\ server = "off"
    /\ sqlReply = None

\* POST /api/register arrives: the handler runs to its first response or to
\* the await of bcrypt.hash.
RegisterRequest(username, email, password) ==
    /\ cur = None
    /\ LET c == registerCheck(users, username, email, password)
           req == [route |-> REGISTER, username |-> username, email |-> email,
                   password |-> password]
           log == registerArrivalLog(c, username, email)
       IN IF c.suspend
          THEN /\ BagCardinality(inflight) < MaxInflight
               /\ inflight' = inflight (+) SetToBag({[req |-> req]})
               /\ UNCHANGED <<last, console>>
          ELSE /\ last' = [req |-> req, res |-> c.res, after |-> "arrival"]
               /\ console' = log
               /\ UNCHANGED inflight
    /\ UNCHANGED <<users, now, ticks, cur, held, loggedIn>>
    /\ UNCHANGED <<productVars, otherVars>>

\* bcrypt.hash resolves: the rest of the register handler runs.
RegisterResume(r, salt) ==
    /\ cur = None
    /\ BagIn(r, inflight)
    /\ r.req.route = REGISTER
    /\ LET o == registerInsert(users, r.req.username, r.req.email,
                               bcryptHash(r.req.password, salt), now)
       IN /\ users' = o.tbl
          /\ last' = [req |-> r.req, res |-> o.res, after |-> "await"]
          /\ console' = registerArrivalLog([suspend |-> TRUE], r.req.username, r.req.email)
                        \o registerResumeLog(insertUser(users, r.req.username, r.req.email,
                                                        bcryptHash(r.req.password, salt), now),
                                             r.req.username, r.req.email,
                                             bcryptHash(r.req.password, salt))
    /\ inflight' = inflight (-) SetToBag({r})
    /\ UNCHANGED <<now, ticks, cur, held, loggedIn>>
    /\ UNCHANGED <<productVars, otherVars>>

\* POST /api/login arrives: the handler runs to its first response or to the
\* await of bcrypt.compare.
LoginRequest(username, password) ==
    /\ cur = None
    /\ LET c == loginLookup(users, username, password)
           req == [route |-> LOGIN, username |-> username, password |-> password]
           log == loginArrivalLog(c, username)
       IN IF c.suspend
          THEN /\ BagCardinality(inflight) < MaxInflight
               /\ inflight' = inflight (+) SetToBag({[req |-> req, user |-> c.user]})
               /\ UNCHANGED <<last, console>>
          ELSE /\ last' = [req |-> req, res |-> c.res, after |-> "arrival"]
               /\ console' = log
               /\ UNCHANGED inflight
    /\ UNCHANGED <<users, now, ticks, cur, held, loggedIn>>
    /\ UNCHANGED <<productVars, otherVars>>

\* LoginResume of a server that records the login: a successful login
\* writes the time into the account's row.
LoginResume_RecordsLogin(r) ==
    /\ cur = None
    /\ BagIn(r, inflight)
    /\ r.req.route = LOGIN
    /\ LET res == loginVerify(r.user, r.req.password, now)
       IN /\ last' = [req |-> r.req, res |-> res, after |-> "await"]
          /\ console' = loginArrivalLog([suspend |-> TRUE], r.req.username)
                        \o loginResumeLog(res)
          /\ IF res.status = 200
             THEN /\ loggedIn' = TRUE
                  /\ held' \in {held, res.body.token}
                  /\ users' = [i \in 1..Len(users) |->
                                 IF users[i].id = r.user.id
                                 THEN [users[i] EXCEPT !.created_at = now + 1]
                                 ELSE users[i]]
             ELSE UNCHANGED <<held, loggedIn, users>>
    /\ inflight' = inflight (-) SetToBag({r})
    /\ UNCHANGED <<now, ticks, cur>>
    /\ UNCHANGED <<productVars, otherVars>>

\* bcrypt.compare resolves: the rest of the login handler runs.  A client
\* that receives a token keeps it or keeps the one it has.
LoginResume(r) ==
    /\ cur = None
    /\ BagIn(r, inflight)
    /\ r.req.route = LOGIN
    /\ LET res == loginVerify(r.user, r.req.password, now)
       IN /\ last' = [req |-> r.req, res |-> res, after |-> "await"]
          /\ console' = loginArrivalLog([suspend |-> TRUE], r.req.username)
                        \o loginResumeLog(res)
          /\ IF res.status = 200
             THEN /\ loggedIn' = TRUE
                  /\ held' \in {held, res.body.token}
             ELSE UNCHANGED <<held, loggedIn>>
    /\ inflight' = inflight (-) SetToBag({r})
    /\ UNCHANGED <<users, now, ticks, cur>>
    /\ UNCHANGED <<productVars, otherVars>>

\* GET /api/decode-demo
DecodeDemoRequest ==
    /\ cur = None
    /\ LET res == decodeDemo(now)
       IN /\ last' = [req |-> [route |-> DECODE_DEMO], res |-> res, after |-> "arrival"]
          /\ console' = <<requestLine(DECODE_DEMO)>>
          /\ held' \in {held, res.body.fullToken}
    /\ UNCHANGED <<users, now, ticks, inflight, cur, loggedIn>>
    /\ UNCHANGED <<productVars, otherVars>>

\* GET /api/profile or GET /api/users arrives: verifyToken runs.  When it
\* calls next() the route handler is next on the call stack (cur).
GuardedRequest(route, header) ==
    /\ cur = None
    /\ LET v == verifyToken(header, now)
           req == [route |-> route, header |-> header]
           log == <<requestLine(route)>> \o verifyTokenLog(header, now)
       IN /\ cur' = IF v.next
                    THEN [req |-> req, user |-> v.user, answered |-> v.res # None]
                    ELSE None
          /\ last' = IF v.res # None
                     THEN [req |-> req, res |-> v.res, after |-> "verifyToken"]
                     ELSE last
          /\ console' = IF v.res # None THEN log ELSE console
    /\ UNCHANGED <<users, now, ticks, inflight, held, loggedIn>>
    /\ UNCHANGED <<productVars, otherVars>>

\* The route handler of the guarded request runs, in the same turn of the
\* event loop as verifyToken: nothing else runs in between.
RouteHandler ==
    /\ cur # None
    /\ LET res == IF cur.req.route = PROFILE THEN profileHandler(users, cur.user)
                  ELSE usersHandler(users, cur.user)
       IN last' = [req |-> cur.req, res |-> res, after |-> "handler", user |-> cur.user]
    /\ console' = <<requestLine(cur.req.route)>>
                  \o verifyTokenLog(cur.req.header, now)
                  \o (IF cur.req.route = PROFILE THEN profileLog(cur.user)
                      ELSE usersLog(cur.user))
    /\ cur' = None
    /\ UNCHANGED <<users, now, ticks, inflight, held, loggedIn>>
    /\ UNCHANGED <<productVars, otherVars>>

\* Time passes (Date.now() in seconds): from the start to one second before
\* the first login token can expire, and from then on second by second.
Tick ==
    /\ cur = None
    /\ ticks < MaxTicks
    /\ now' = IF now < TokenTTL - 1 THEN TokenTTL - 1 ELSE now + 1
    /\ ticks' = ticks + 1
    /\ UNCHANGED <<users, inflight, cur, last, console, held, loggedIn>>
    /\ UNCHANGED <<productVars, otherVars>>

\* ------------------------------------------------- the products server's steps

GET_PRODUCTS == "GET /api/products"
GET_PRODUCT == "GET /api/products/:id"
POST_PRODUCT == "POST /api/products"
PUT_PRODUCT == "PUT /api/products/:id"
DELETE_PRODUCT == "DELETE /api/products/:id"

\* The :id segments the clients send: 1, 5, 9, 1x and x.
IdParams == {"1", "5", "9", "1x", "x"}

TV == JsString("TV")

\* The bodies of the POST requests: a name absent, empty or "TV", a price
\* absent or the string "59.99", inStock absent or false.
PostBodies ==
    [name : {Undefined, JsString(""), TV},
     price : {Undefined, JsString("59.99")},
     inStock : {Undefined, JsBoolean(FALSE)}]

\* The bodies of the PUT requests: a name absent or "TV", a price absent or
\* the number 25, inStock absent or false.
PutBodies ==
    [name : {Undefined, TV},
     price : {Undefined, JsNumber(2500)},
     inStock : {Undefined, JsBoolean(FALSE)}]

\* GET /api/products
GetProducts ==
    /\ reply' = [req |-> [route |-> GET_PRODUCTS], res |-> getProducts(products)]
    /\ UNCHANGED <<products, nextId>>
    /\ UNCHANGED <<authVars, otherVars>>

\* GET /api/products/:id
GetProduct(idParam) ==
    /\ reply' = [req |-> [route |-> GET_PRODUCT, id |-> idParam],
                 res |-> getProduct(products, idParam)]
    /\ UNCHANGED <<products, nextId>>
    /\ UNCHANGED <<authVars, otherVars>>

\* POST /api/products; the ids handed out stay below MaxNextId.
PostProduct(body) ==
    /\ LET o == postProduct(products, nextId, body)
       IN /\ o.nextId <= MaxNextId
          /\ products' = o.products
          /\ nextId' = o.nextId
          /\ reply' = [req |-> [route |-> POST_PRODUCT, body |-> body], res |-> o.res]
    /\ UNCHANGED <<authVars, otherVars>>

\* PUT /api/products/:id
PutProduct(idParam, body) ==
    /\ LET o == putProduct(products, idParam, body)
       IN /\ products' = o.products
          /\ reply' = [req |-> [route |-> PUT_PRODUCT, id |-> idParam, body |-> body],
                       res |-> o.res]
    /\ UNCHANGED nextId
    /\ UNCHANGED <<authVars, otherVars>>

\* DELETE /api/products/:id
DeleteProduct(idParam) ==
    /\ LET o == deleteProduct(products, idParam)
       IN /\ products' = o.products
          /\ reply' = [req |-> [route |-> DELETE_PRODUCT, id |-> idParam], res |-> o.res]
    /\ UNCHANGED nextId
    /\ UNCHANGED <<authVars, otherVars>>

\* The account flows alone: every register and login input, suspended at
\* their awaits and resumed in every order, at one instant of the clock.
NextAccounts ==
    \/ \E u \in Usernames \cup {Missing}, e \in Emails \cup {Missing},
          p \in Passwords \cup {Missing} : RegisterRequest(u, e, p)
    \/ \E r \in BagToSet(inflight), salt \in Salts : RegisterResume(r, salt)
    \/ \E u \in Usernames \cup {Missing}, p \in Passwords \cup {Missing} : LoginRequest(u, p)
    \/ \E r \in BagToSet(inflight) : LoginResume(r)

SpecAccounts == Init /\ [][NextAccounts]_vars

\* The register requests of the session flows: the account's, and the same
\* with a password too short to pass validation.
SessionAccounts ==
    { <<"alice", "alice@example.com", "secret">>,
      <<"alice", "alice@example.com", "abcde">> }

\* The session flows: tokens issued by login and by the demo route, presented
\* to the guarded routes in every header form while time passes.
NextSession ==
    \/ \E a \in SessionAccounts : RegisterRequest(a[1], a[2], a[3])
    \/ \E r \in BagToSet(inflight), salt \in Salts : RegisterResume(r, salt)
    \/ \E u \in Usernames, p \in Passwords : LoginRequest(u, p)
    \/ \E r \in BagToSet(inflight) : LoginResume(r)
    \/ DecodeDemoRequest
    \/ \E route \in GuardedRoutes, h \in Headers : GuardedRequest(route, h)
    \/ RouteHandler
    \/ Tick

SpecSession == Init /\ [][NextSession]_vars

\* The products server: every request of its five routes, one at a time
\* (its handlers never await).
NextProducts ==
    \/ GetProducts
    \/ \E idParam \in IdParams : GetProduct(idParam)
    \/ \E body \in PostBodies : PostProduct(body)
    \/ \E idParam \in IdParams, body \in PutBodies : PutProduct(idParam, body)
    \/ \E idParam \in IdParams : DeleteProduct(idParam)

SpecProducts == Init /\ [][NextProducts]_vars

\* ------------------------------------------------------- claims: accounts

\* The body passes STEP 1 of register: all fields present, password long enough.
RegisterValid(username, email, password) ==
    /\ username # Missing /\ email # Missing /\ password # Missing
    /\ Len(password) >= MinPasswordLength

\* An account of the table holds the username or the email.
Taken(tbl, username, email) ==
    \E i \in 1..Len(tbl) : tbl[i].username = username \/ tbl[i].email = email

\* The password the account in row was registered with.
RegisteredPassword(row) == row.password_hash.digest[2]

LastIs(route) == last # None /\ last.req.route = route

\* C1: a register request with all fields present, a password of length >= 6
\* and no account holding its username or email when it arrived is answered
\* 201 with the account created, and a login with the username and password
\* of an account is answered 200 with a token.
C1_RegisterThenLoginSucceed ==
    /\ (LastIs(REGISTER) /\ last.after = "await")
          => /\ last.res.status = 201
             /\ \E i \in 1..Len(users) :
                   /\ users[i].username = last.req.username
                   /\ users[i].email = last.req.email
    /\ (LastIs(LOGIN) /\ \E i \in 1..Len(users) :
                             /\ users[i].username = last.req.username
                             /\ RegisteredPassword(users[i]) = last.req.password)
          => /\ last.res.status = 200
             /\ last.res.body.token.sig = hmac(last.res.body.token.claims, JWT_SECRET)

\* C3 (as stated): every register request whose username or email is held by
\* an account of the store is answered 400 DuplicateAccount and leaves the
\* store as it was.
C3_AnyDuplicateIsDuplicateAccount ==
    [][\A u \in Usernames \cup {Missing}, e \in Emails \cup {Missing},
          p \in Passwords \cup {Missing} :
          (Taken(users, u, e) /\ RegisterRequest(u, e, p))
             => /\ last' = [req |-> [route |-> REGISTER, username |-> u, email |-> e,
                                     password |-> p],
                            res |-> RegisterUserExists, after |-> "arrival"]
                /\ users' = users
                /\ inflight' = inflight]_vars

\* C3 (amended): every register request that passes validation and whose
\* username or email is held by an account of the store is answered 400
\* DuplicateAccount at once, and the store and the suspended requests are as
\* they were: nothing is hashed or inserted.
C3_ValidDuplicateIsDuplicateAccount ==
    [][\A u \in Usernames, e \in Emails, p \in Passwords :
          (RegisterValid(u, e, p) /\ Taken(users, u, e) /\ RegisterRequest(u, e, p))
             => /\ last' = [req |-> [route |-> REGISTER, username |-> u, email |-> e,
                                     password |-> p],
                            res |-> RegisterUserExists, after |-> "arrival"]
                /\ users' = users
                /\ inflight' = inflight]_vars

\* C3 witness: a valid register for a taken username or email was answered
\* 400 DuplicateAccount.
C3_Witness ==
    /\ LastIs(REGISTER)
    /\ RegisterValid(last.req.username, last.req.email, last.req.password)
    /\ Taken(users, last.req.username, last.req.email)
    /\ last.res = RegisterUserExists

\* C4: every register request that was suspended at the hashing await is
\* answered 201 (it created the account) or 400 DuplicateAccount (the other
\* request of the race created it).
C4_RaceLoserGetsDuplicateAccount ==
    (LastIs(REGISTER) /\ last.after = "await")
       => \/ last.res.status = 201
          \/ last.res = RegisterUserExists

\* C5: no two accounts of the store share a username, and no two share an
\* email.
C5_UniqueUsernameAndEmail ==
    \A i, j \in 1..Len(users) :
       i # j => /\ users[i].username # users[j].username
                /\ users[i].email # users[j].email

\* C5 witness: two accounts are stored and a register that raced with
\* another one lost at the insert.
C5_Witness ==
    /\ Len(users) = 2
    /\ LastIs(REGISTER)
    /\ last.after = "await"
    /\ last.res.status = 500

\* C6: in every store state the response to a login with an unknown username
\* and the response to a login with a known username and a wrong password are
\* the same 401 with the same body, and so is every such response sent.
C6_LoginFailuresIndistinguishable ==
    /\ \A u1, u2 \in Usernames, p1, p2 \in Passwords :
          (/\ selectByUsername(users, u1) = None
           /\ selectByUsername(users, u2) # None
           /\ RegisteredPassword(selectByUsername(users, u2)) # p2)
             => /\ loginResponse(users, u1, p1, now).status = 401
                /\ loginResponse(users, u1, p1, now) = loginResponse(users, u2, p2, now)
    /\ (LastIs(LOGIN) /\ last.req.username # Missing /\ last.req.password # Missing
           /\ last.res.status # 200)
          => last.res = LoginUnknownUser /\ last.res = LoginWrongPassword

\* C6 witness: one username is registered and another is not, and a login
\* with the registered one and a wrong password was answered.
C6_Witness ==
    /\ LastIs(LOGIN)
    /\ last.after = "await"
    /\ last.res.status = 401
    /\ \E u \in Usernames : selectByUsername(users, u) = None

\* ------------------------------------------------------- claims: sessions

LastIsGuarded == last # None /\ last.req.route \in GuardedRoutes

\* The header is exactly two space-separated parts, the first the scheme.
WellFormedHeader(header) ==
    /\ Len(split(header)) = 2
    /\ split(header)[1] = <<Word("Bearer")>>
    /\ split(header)[2] # <<>>

\* The token the middleware reads from the header: its second part.
PresentedToken(header) ==
    IF Len(split(header)) >= 2 THEN asToken(split(header)[2]) ELSE GarbageToken

\* The token carries the server's signature over its claims.
CorrectlySigned(token) ==
    token # GarbageToken /\ token.sig = hmac(token.claims, JWT_SECRET)

\* C2: a guarded route runs its handler, and answers 200, only for clients
\* of a server on which a login has succeeded: every accepted token was
\* issued by a successful login.
C2_OnlyLoginGrantsAccess ==
    /\ cur # None => loggedIn
    /\ (LastIsGuarded /\ last.res.status = 200) => loggedIn

\* C7: a guarded request whose Authorization header is present but is not
\* exactly two space-separated parts with the scheme Bearer first is answered
\* 401 by the guard, and its route handler never runs.
C7_MalformedHeaderRejected ==
    /\ cur # None => WellFormedHeader(cur.req.header)
    /\ (LastIsGuarded /\ last.req.header # NoHeader /\ ~WellFormedHeader(last.req.header))
          => /\ last.after = "verifyToken"
             /\ last.res.status = 401

C9_GuardThenHandler ==
    /\ cur # None
          => /\ ~cur.answered
             /\ jwtVerify(PresentedToken(cur.req.header), JWT_SECRET, now).ok
             /\ cur.user = PresentedToken(cur.req.header).claims
    /\ LastIsGuarded
          => \/ last.after = "verifyToken" /\ last.res.status = 401
             \/ /\ last.after = "handler"
                /\ last.user # None
                /\ last.user = PresentedToken(last.req.header).claims

\* C9 witness: a route handler ran with req.user set and answered 200.
C9_Witness ==
    /\ LastIsGuarded
    /\ last.after = "handler"
    /\ last.res.status = 200
    /\ last.user = PresentedToken(last.req.header).claims

\* C10: a correctly signed token is accepted by the guard at every time
\* before its expiry and rejected at its expiry and at every later time.
C10_ExpiryBoundaryInclusive ==
    /\ \A k \in PresentableTokens :
          CorrectlySigned(k)
             => (verifyToken(<<Word("Bearer"), SP, Tok(k)>>, now).next <=> now < k.claims.exp)
    /\ (cur # None /\ CorrectlySigned(PresentedToken(cur.req.header)))
          => now < PresentedToken(cur.req.header).claims.exp
    /\ (LastIsGuarded /\ last.after = "verifyToken"
           /\ CorrectlySigned(PresentedToken(last.req.header)))
          => now >= PresentedToken(last.req.header).claims.exp

\* C10 witness: the token a login issued was presented at the instant of its
\* expiry and rejected.
C10_Witness ==
    /\ held # None
    /\ now = held.claims.exp
    /\ held.claims.exp = held.claims.iat + TokenTTL
    /\ LastIsGuarded
    /\ last.req.header = <<Word("Bearer"), SP, Tok(held)>>
    /\ last.res = InvalidOrExpiredToken
\* ------------------------------------------------------- token round trip

\* The payloads the server signs: one per account, and the demo payload.
SignedPayloads ==
    { [userId |-> users[i].id, username |-> users[i].username, email |-> users[i].email] :
        i \in 1..Len(users) }
    \cup { [userId |-> DemoUserId, username |-> "demo_user", role |-> "admin"] }

\* The claims a verification returned, without the issued-at and the expiry.
WithoutTimes(claims) == [k \in DOMAIN claims \ {"iat", "exp"} |-> claims[k]]

IssuedByLogin(token) ==
    /\ CorrectlySigned(token)
    /\ DOMAIN token.claims = {"userId", "username", "email", "iat", "exp"}
    /\ token.claims.exp = token.claims.iat + TokenTTL

\* C12: in every state the server can reach, whatever register, login and
\* guarded requests it has served since, the guard accepts a token a login
\* issued as long as the time is before the token's expiry, and hands the
\* handler that token's claims: nothing revokes a token.
C12_NoRevocation ==
    (held # None /\ IssuedByLogin(held) /\ now < held.claims.exp) =>
        verifyToken(<<Word("Bearer"), SP, Tok(held)>>, now) =
            [next |-> TRUE, res |-> None, user |-> held.claims]

\* The client holds a login token not yet expired while a later login has
\* been answered with another token.
C12_Witness ==
    /\ held # None /\ IssuedByLogin(held) /\ now < held.claims.exp
    /\ LastIs(LOGIN) /\ last.res.status = 200
    /\ last.res.body.token # held
    /\ last.res.body.token.claims.iat > held.claims.iat

\* ---------------------------------------------------- register validation

\* The response is one of register's two validation failures.
IsValidationError(res) ==
    /\ res.status = 400
    /\ res.body.error = "Validation failed"

\* C13: a register request with the username, the email or the password
\* missing, or with a password of fewer than 6 characters, is answered 400
\* "Validation failed" on arrival, before anything is hashed or stored, and
\* no account in the store came from such a request; a request with all
\* fields and a password of exactly 6 characters is not refused by the
\* validation.
C13_RegisterValidation ==
    /\ \A username \in Usernames \cup {Missing}, email \in Emails \cup {Missing},
          password \in Passwords \cup {Missing} :
          LET c == registerCheck(users, username, email, password)
              invalid == \/ username = Missing \/ email = Missing \/ password = Missing
                         \/ Len(password) < 6
          IN /\ invalid => (~c.suspend /\ IsValidationError(c.res))
             /\ (~invalid /\ Len(password) = 6) =>
                   (c.suspend \/ ~IsValidationError(c.res))
    /\ LastIs(REGISTER) =>
          LET req == last.req
              invalid == \/ req.username = Missing \/ req.email = Missing
                         \/ req.password = Missing \/ Len(req.password) < 6
          IN /\ invalid => (IsValidationError(last.res) /\ last.after = "arrival")
             /\ (~invalid /\ Len(req.password) = 6) => ~IsValidationError(last.res)
    /\ \A i \in 1..Len(users) :
          /\ users[i].username # Missing /\ users[i].email # Missing
          /\ Len(RegisteredPassword(users[i])) >= 6

\* A request with a 5-character password has been refused while an account
\* registered with a 6-character password is in the store.
C13_Witness ==
    /\ LastIs(REGISTER)
    /\ last.req.username # Missing /\ last.req.email # Missing
    /\ last.req.password # Missing /\ Len(last.req.password) = 5
    /\ IsValidationError(last.res)
    /\ \E i \in 1..Len(users) : Len(RegisteredPassword(users[i])) = 6

\* --------------------------------------------------------- the store grows

\* C15: no step of the server removes or changes an account: every account
\* in the store before a step is in the store after it with the same id,
\* username, email, digest and creation time, in the same place, and the
\* store is never shorter.
C15_StoreOnlyGrows ==
    [][/\ Len(users') >= Len(users)
       /\ \A i \in 1..Len(users) :
             /\ users'[i] = users[i]
             /\ users'[i].id = users[i].id
             /\ users'[i].password_hash = users[i].password_hash
             /\ users'[i].created_at = users[i].created_at]_vars

\* Two accounts are in the store and a registration that came after them
\* has failed on the store's UNIQUE columns.
C15_Witness ==
    /\ Len(users) = 2
    /\ LastIs(REGISTER) /\ last.res.status = 500

\* ------------------------------------------------------ the token of a login

\* C16: a login answered 200 carries a token whose claims are the id, the
\* username and the email of the stored account with the submitted username,
\* and an expiry 24 hours (86400 seconds) after the issued-at, and its user
\* summary is the id, username and email of that same account.
C16_LoginTokenNamesAccount ==
    (LastIs(LOGIN) /\ last.res.status = 200) =>
        \E i \in 1..Len(users) :
            LET row == users[i]
                claims == last.res.body.token.claims
            IN /\ row.username = last.req.username
               /\ claims.userId = row.id
               /\ claims.username = row.username
               /\ claims.email = row.email
               /\ claims.exp = claims.iat + 24 * 60 * 60
               /\ DOMAIN claims = {"userId", "username", "email", "iat", "exp"}
               /\ last.res.body.user =
                     [id |-> row.id, username |-> row.username, email |-> row.email]

\* With two accounts in the store, a login as the second has succeeded.
C16_Witness ==
    /\ Len(users) = 2
    /\ LastIs(LOGIN) /\ last.res.status = 200
    /\ last.req.username = users[2].username
    /\ last.res.body.token.claims.userId = 2

\* ----------------------------------------------------------------- profile

\* The rows of the store with the id.
RowsWithId(id) == {i \in 1..Len(users) : users[i].id = id}

\* The response is 200 with the id, username, email and creation time of
\* the stored account with the id, and nothing else of it.
IsProfileOf(res, id) ==
    /\ res.status = 200
    /\ \E i \in RowsWithId(id) :
          res.body.user = [id |-> users[i].id, username |-> users[i].username,
                           email |-> users[i].email, created_at |-> users[i].created_at]
    /\ DOMAIN res.body.user = {"id", "username", "email", "created_at"}

\* C17: when the guard has accepted the token of a profile request, the
\* handler answers 404 "User not found" if no stored account has the
\* token's userId and otherwise 200 with that account's record without the
\* digest; and every answer a profile handler gave is one of the two, a 200
\* carrying the record of the account with the token's userId.
C17_ProfileByTokenUserId ==
    /\ (cur # None /\ cur.req.route = PROFILE) =>
          LET res == profileHandler(users, cur.user)
          IN /\ (RowsWithId(cur.user.userId) = {}) <=> (res.status = 404)
             /\ (RowsWithId(cur.user.userId) = {}) => res = UserNotFound
             /\ (RowsWithId(cur.user.userId) # {}) => IsProfileOf(res, cur.user.userId)
    /\ (LastIs(PROFILE) /\ last.after = "handler") =>
          /\ last.res.status \in {200, 404}
          /\ last.res.status = 200 => IsProfileOf(last.res, last.user.userId)
          /\ last.res.status = 404 =>
                (last.res = UserNotFound /\ RowsWithId(last.user.userId) = {})

\* A profile request with the account's login token has been answered with
\* the account's record.
C17_Witness ==
    /\ LastIs(PROFILE) /\ last.after = "handler"
    /\ last.res.status = 200
    /\ last.res.body.user.id = last.user.userId
    /\ last.res.body.user.username = "alice"

\* ------------------------------------------------- the digest stays inside

\* The digests printed in the lines.
DigestsIn(lines) ==
    { lines[i].values[j].digest :
        <<i, j>> \in { <<i, j>> \in (1..Len(lines)) \X (1..3) :
                         /\ j <= Len(lines[i].values)
                         /\ lines[i].values[j].kind = "digest" } }

\* The account records a response carries.
RecordsIn(res) ==
    IF "user" \in DOMAIN res.body THEN {res.body.user}
    ELSE IF "users" \in DOMAIN res.body
    THEN {res.body.users[i] : i \in 1..Len(res.body.users)}
    ELSE {}

C20_RefusedPostChangesNothing ==
    [][(/\ reply' # None
        /\ reply'.req.route = POST_PRODUCT
        /\ PostProduct(reply'.req.body)) =>
           LET body == reply'.req.body
           IN /\ (body.name = Undefined \/ body.price = Undefined) =>
                    /\ reply'.res = InvalidData
                    /\ reply'.res.status = 400
                    /\ products' = products
                    /\ nextId' = nextId
              /\ reply'.res.status = 201 =>
                    /\ reply'.res.body.product.id = nextId
                    /\ nextId' = nextId + 1
                    /\ products' = Append(products, reply'.res.body.product)]_vars

\* After one product was created, a POST with a name and no price has been
\* refused, the array and the counter as the creation left them.
C20_Witness ==
    /\ reply # None /\ reply.req.route = POST_PRODUCT
    /\ reply.req.body.name = TV /\ reply.req.body.price = Undefined
    /\ reply.res.status = 400
    /\ nextId = InitialNextId + 1
    /\ Len(products) = Len(InitialProducts) + 1
    /\ products[Len(products)].id = InitialNextId

\* -------------------------------------------------------- read-only routes

\* C18: a step that answers a login, a profile or a list-accounts request
\* leaves the account store as it was, and so does every step that is not
\* the insert of a registration answered 201: the store changes only by
\* that registration's one new row. The server keeps no other state of its
\* accounts, so a login that issues a token records nothing.
C18_ReadOnlyRoutes ==
    [][/\ (last' # None /\ last' # last /\ last'.req.route \in {LOGIN, PROFILE, USERS})
             => users' = users
       /\ (users' # users) =>
             /\ last' # None
             /\ last'.req.route = REGISTER
             /\ last'.res.status = 201
             /\ Len(users') = Len(users) + 1
             /\ users' = Append(users, users'[Len(users')])
             /\ users'[Len(users')].username = last'.req.username
             /\ users'[Len(users')].id = last'.res.body.user.id]_vars

\* A login later than the registration has been answered with a token the
\* client holds, and the store is the one row the registration wrote.
C18_Witness ==
    /\ LastIs(LOGIN) /\ last.res.status = 200
    /\ held = last.res.body.token
    /\ Len(users) = 1
    /\ users[1].created_at < last.res.body.token.claims.iat
    /\ BagCardinality(inflight) = 0 /\ cur = None

\* -------------------------------------------------------- failures stay put

\* C19: a step that answers a request with a failure (a validation error,
\* a duplicate, bad credentials, a rejected token, an exception of the
\* store) changes nothing another request's outcome depends on: the store
\* and the clock are as before, and the requests suspended at an await are
\* as before but for the failed request itself. The handlers compute their
\* responses from the store, the clock and their own request, so every
\* other request is answered as if the failed one had never been sent.
C19_FailuresStayPut ==
    [][(last' # None /\ last' # last /\ last'.res.status >= 400) =>
          /\ users' = users
          /\ now' = now
          /\ \/ inflight' = inflight
             \/ \E r \in BagToSet(inflight) :
                   /\ r.req = last'.req
                   /\ inflight' = inflight (-) SetToBag({r})
          /\ cur' = None]_vars

\* The registration that lost the race has been answered 500 while a login
\* is suspended at its await, and the winner's account is in the store.
C19_Witness ==
    /\ LastIs(REGISTER) /\ last.res.status = 500
    /\ Len(users) = 1
    /\ \E r \in BagToSet(inflight) : r.req.route = LOGIN

\* ------------------------------------------------- products: what PUT changes

\* The positions of the products with the id the :id segment names.
PositionsOf(list, idParam) ==
    {i \in 1..Len(list) : JsNumber(100 * list[i].id) = parseInt(idParam)}

\* C21: a PUT /api/products/:id step keeps the id counter and the number
\* and order of the products. When a product has the id, it is answered 200
\* and that product alone changes: its id stays, each of name, price and
\* inStock takes the body's value when the body has the field (the price
\* through parseFloat) and stays otherwise, and every other product is as
\* it was. When no product has the id, it is answered 404 and the array is
\* as it was.
C21_PutChangesOnlyBodyFields ==
    [][(/\ reply' # None
        /\ reply'.req.route = PUT_PRODUCT
        /\ PutProduct(reply'.req.id, reply'.req.body)) =>
           LET body == reply'.req.body
               hits == PositionsOf(products, reply'.req.id)
           IN /\ nextId' = nextId
              /\ Len(products') = Len(products)
              /\ hits = {} => (reply'.res.status = 404 /\ products' = products)
              /\ hits # {} =>
                    /\ reply'.res.status = 200
                    /\ \E i \in hits :
                          /\ \A j \in 1..Len(products) : j # i => products'[j] = products[j]
                          /\ products'[i].id = products[i].id
                          /\ products'[i].name =
                                (IF body.name = Undefined THEN products[i].name ELSE body.name)
                          /\ products'[i].price =
                                (IF body.price = Undefined THEN products[i].price
                                 ELSE parseFloat(body.price))
                          /\ products'[i].inStock =
                                (IF body.inStock = Undefined THEN products[i].inStock
                                 ELSE body.inStock)
                          /\ DOMAIN products'[i] = {"id", "name", "price", "inStock"}
                          /\ reply'.res.body.product = products'[i]]_vars

\* A PUT with only a name has been answered 200: product 1 has the new name
\* and the price and stock it started with, and the products after it are
\* the initial ones.
C21_Witness ==
    /\ reply # None /\ reply.req.route = PUT_PRODUCT
    /\ reply.req.body = [name |-> TV, price |-> Undefined, inStock |-> Undefined]
    /\ reply.res.status = 200
    /\ Len(products) >= 4
    /\ products[1] = [InitialProducts[1] EXCEPT !.name = TV]
    /\ \A j \in 2..4 : products[j] = InitialProducts[j]

\* ---------------------------------------------- products: create then delete

\* String(n) for a natural number: what a client writes in the :id segment
\* for an id it received.
RECURSIVE idSegment(_)
idSegment(n) ==
    IF n < 10 THEN DigitChars[n + 1]
    ELSE idSegment(n \div 10) \o DigitChars[(n % 10) + 1]

\* C22: in every state of the products server, a POST that is answered 201
\* followed by a DELETE on the id it returned is answered 200 with the
\* created product and leaves the products array equal to the one before
\* the POST, element by element; and then a GET, a PUT (with any body) and
\* a second DELETE on that id are answered 404 and change nothing.
C22_CreateThenDeleteRestores ==
    \A body \in PostBodies :
        LET created == postProduct(products, nextId, body)
        IN created.res.status = 201 =>
              LET idParam == idSegment(created.res.body.product.id)
                  deleted == deleteProduct(created.products, idParam)
              IN /\ created.products # products
                 /\ deleted.res.status = 200
                 /\ deleted.res.body.product = created.res.body.product
                 /\ deleted.products = products
                 /\ getProduct(deleted.products, idParam).status = 404
                 /\ deleteProduct(deleted.products, idParam).res.status = 404
                 /\ deleteProduct(deleted.products, idParam).products = products
                 /\ \A b \in PutBodies :
                       /\ putProduct(deleted.products, idParam, b).res.status = 404
                       /\ putProduct(deleted.products, idParam, b).products = products

\* The server has done it: product 5 was created and then deleted, the array
\* is the initial one again, and a later request on id 5 has been answered
\* 404.
C22_Witness ==
    /\ nextId = InitialNextId + 1
    /\ products = InitialProducts
    /\ reply # None
    /\ reply.req.route \in {GET_PRODUCT, PUT_PRODUCT, DELETE_PRODUCT}
    /\ reply.req.id = idSegment(InitialNextId)
    /\ reply.res.status = 404

\* -------------------------------------------------- products: ids are fresh

\* The ids of the products of the list.
IdsOf(list) == {list[i].id : i \in 1..Len(list)}

\* C29: no two products of the array have the same id and every id in it is
\* below the counter; a step never lowers the counter, and the only id a
\* step adds to the array is the counter's value, with the counter moved
\* past it. So an id that was assigned, still in the array or deleted from
\* it, is below every id assigned after it.
C29_IdsNeverReused ==
    [][/\ \A i, j \in 1..Len(products') : i # j => products'[i].id # products'[j].id
       /\ \A i \in 1..Len(products') : products'[i].id < nextId'
       /\ nextId' >= nextId
       /\ \A id \in IdsOf(products') \ IdsOf(products) :
             /\ id = nextId
             /\ nextId' = nextId + 1
       /\ (reply' # None /\ reply'.res.status = 201) =>
             reply'.res.body.product.id \notin IdsOf(products)]_vars

\* Product 5 was created and deleted and the product created after it has
\* id 6.
C29_Witness ==
    /\ nextId = InitialNextId + 2
    /\ Len(products) = Len(InitialProducts) + 1
    /\ products[Len(products)].id = InitialNextId + 1
    /\ InitialNextId \notin IdsOf(products)

\* ---------------------------------------------------------- routing server

\* The largest number of requests the routing server is sent.
MaxRequests == 4


\* new Date().toISOString(): a string that tells the instant.
toISOString(t) == [iso |-> t]

\* One layer of the Express stack: app.use registers it for every method and
\* path, app.get and app.post for one method and one path.
Layer(name, method, path) == [name |-> name, method |-> method, path |-> path]
use(name) == Layer(name, "ALL", "*")

\* The same layers with the counter registered after the routes.
stack_CounterAfterRoutes ==
    << use("logger"), use("timestamp"),
       Layer("root", "GET", "/"), Layer("hello", "GET", "/hello"),
       Layer("about", "GET", "/about"), Layer("stats", "GET", "/stats"),
       Layer("data", "POST", "/data"),
       Layer("checkAccess", "GET", "/protected"),
       Layer("protected", "GET", "/protected"),
       use("counter"), use("notFound") >>

\* The layers in the order the file registers them.
stack ==
    << use("logger"), use("counter"), use("timestamp"),
       Layer("root", "GET", "/"), Layer("hello", "GET", "/hello"),
       Layer("about", "GET", "/about"), Layer("stats", "GET", "/stats"),
       Layer("data", "POST", "/data"),
       Layer("checkAccess", "GET", "/protected"),
       Layer("protected", "GET", "/protected"),
       use("notFound") >>

matches(layer, req) ==
    /\ layer.method \in {"ALL", req.method}
    /\ layer.path \in {"*", req.url}

\* const hasAccess = true
hasAccess == TRUE

\* What one layer does to the exchange x: x.req is the request object,
\* x.count the module's requestCount, x.res the response sent (None while
\* none is), x.next whether the layer called next(), x.ran the layers run.
handle(name, x) ==
    LET y == [x EXCEPT !.ran = Append(x.ran, name), !.next = FALSE] IN
    CASE name = "logger" -> [y EXCEPT !.next = TRUE]
      [] name = "counter" -> [y EXCEPT !.count = x.count + 1, !.next = TRUE]
      [] name = "timestamp" ->
             [y EXCEPT !.req.timestamp = toISOString(x.t), !.next = TRUE]
      [] name = "root" ->
             [y EXCEPT !.res = Response(200,
                 "Welcome to the Node.js + Express Learning Server!")]
      [] name = "hello" ->
             [y EXCEPT !.res = Response(200,
                 [text |-> "Hello! This request was made at ",
                  timestamp |-> x.req.timestamp])]
      [] name = "about" -> [y EXCEPT !.res = Response(200, "About Page")]
      [] name = "stats" ->
             [y EXCEPT !.res = Response(200,
                 [message |-> "Server Statistics",
                  totalRequests |-> x.count,
                  serverUptime |-> x.t])]
      [] name = "data" ->
             [y EXCEPT !.res = Response(200,
                 [message |-> "POST request received!",
                  timestamp |-> x.req.timestamp])]
      [] name = "checkAccess" ->
             IF hasAccess THEN [y EXCEPT !.next = TRUE]
             ELSE [y EXCEPT !.res = Response(403, "Access Denied")]
      [] name = "protected" ->
             [y EXCEPT !.res = Response(200, "You accessed a protected route!")]
      [] name = "notFound" ->
             [y EXCEPT !.res = Response(404, "404 - Page Not Found")]

\* Express runs the matching layers from position i on, in order, each one
\* only if the one before it called next().
RECURSIVE dispatch(_, _)
dispatch(i, x) ==
    IF i > Len(stack) THEN x
    ELSE IF ~matches(stack[i], x.req) THEN dispatch(i + 1, x)
    ELSE LET y == handle(stack[i].name, x) IN
         IF y.next THEN dispatch(i + 1, y) ELSE y

\* A request reaches the routing server at instant t and is served to the
\* end: every middleware and handler is synchronous.
RoutingRequest(method, url, t) ==
    /\ received < MaxRequests
    /\ received' = received + 1
    /\ LET x == dispatch(1, [req |-> [method |-> method, url |-> url,
                                     timestamp |-> Undefined],
                             count |-> requestCount, res |-> None,
                             next |-> FALSE, ran |-> <<>>, t |-> t]) IN
         /\ requestCount' = x.count
         /\ served' = [req |-> x.req, res |-> x.res, ran |-> x.ran]
    /\ UNCHANGED <<authVars, productVars, asyncVars, sqlVars>>

NextRouting ==
    \E method \in {"GET", "POST"},
       url \in {"/", "/hello", "/about", "/stats", "/data", "/protected", "/nope"},
       t \in {0, 1} :
        RoutingRequest(method, url, t)

SpecRouting == Init /\ [][NextRouting]_vars

\* ---------------------------------------------------- claims: routing server

RouteHandlers ==
    {"root", "hello", "about", "stats", "data", "checkAccess", "protected",
     "notFound"}

\* C23: for every request the logger, the request counter and the timestamp
\* middleware run in that order before any route handler or the 404 handler,
\* so req.timestamp is set in every handler, and GET /stats reports
\* totalRequests equal to the number of requests received so far, itself and
\* the requests that ended in 404 included.
C23_MiddlewareOrderAndCount ==
    /\ requestCount = received
    /\ served # None =>
         /\ Len(served.ran) >= 4
         /\ SubSeq(served.ran, 1, 3) = <<"logger", "counter", "timestamp">>
         /\ \A i \in 4..Len(served.ran) : served.ran[i] \in RouteHandlers
         /\ served.req.timestamp # Undefined
         /\ served.res # None
         /\ served.ran[Len(served.ran)] = "stats" =>
                served.res.body.totalRequests = received

\* The fourth request is GET /stats after a request that ended in 404, and
\* it reports 4.
C23_Witness ==
    /\ served # None
    /\ served.req.url = "/stats" /\ served.req.method = "GET"
    /\ served.res.status = 200
    /\ served.res.body.totalRequests = MaxRequests
    /\ received = MaxRequests

\* ------------------------------------------------------------ async server


\* What a handler starts and awaits: the setTimeout promise, a fetch of a
\* jsonplaceholder collection, and response.json() of each fetch's response.
Fetches == {"posts", "users", "comments", "invalid"}
Bodies == {"postsBody", "usersBody", "commentsBody"}
AsyncOps == {"timer"} \cup Fetches \cup Bodies

\* How a started operation can end. The timer's end is the handler's own
\* choice: /api/basic resolves it, /api/error-demo/timeout rejects it. A fetch
\* resolves with an ok response or with one that is not ok, or rejects;
\* response.json() yields an array or another value, or rejects.
Outcomes(r, op) ==
    IF op = "timer"
    THEN IF r.route = "GET /api/basic" THEN {"resolved"} ELSE {"rejected"}
    ELSE IF op \in Fetches THEN {"ok", "notok", "rejected"}
    ELSE {"array", "object", "rejected"}

\* The request object when it reaches its handler.
arrival(route, param) ==
    [route |-> route, param |-> param, pc |-> "start", awaiting |-> {},
     ops |-> [op \in AsyncOps |-> "idle"], res |-> <<>>]

\* The handler calls the operations of ops and suspends on them at pc.
await(r, pc, ops) ==
    [r EXCEPT !.pc = pc, !.awaiting = ops,
              !.ops = [op \in AsyncOps |->
                          IF op \in ops /\ r.ops[op] = "idle"
                          THEN "pending" ELSE r.ops[op]]]

\* res.status(status).json(body)
json(r, status, body) == [r EXCEPT !.res = Append(r.res, Response(status, body))]

\* The handler function returns.
return(r) == [r EXCEPT !.pc = "end", !.awaiting = {}]

\* The promise the handler is suspended on, await p or await Promise.all:
\* rejected as soon as one of its operations is, fulfilled when all are.
awaited(r) ==
    IF \E op \in r.awaiting : r.ops[op] = "rejected" THEN "rejected"
    ELSE IF \E op \in r.awaiting : r.ops[op] = "pending" THEN "pending"
    ELSE "fulfilled"

\* GET /api/basic
basic(r) ==
    CASE r.pc = "start" -> await(r, "timer", {"timer"})
      [] r.pc = "timer" ->
             IF awaited(r) = "rejected"
             THEN return(json(r, 500, [error |-> "Something went wrong"]))
             ELSE return(json(r, 200, [message |-> "Data from async operation"]))

\* GET /api/posts
posts(r) ==
    CASE r.pc = "start" -> await(r, "response", {"posts"})
      [] r.pc = "response" ->
             IF awaited(r) = "rejected" \/ r.ops["posts"] # "ok"
             THEN return(json(r, 500, [error |-> "Failed to fetch posts"]))
             ELSE await(r, "body", {"postsBody"})
      [] r.pc = "body" ->
             IF awaited(r) = "rejected" \/ r.ops["postsBody"] # "array"
             THEN return(json(r, 500, [error |-> "Failed to fetch posts"]))
             ELSE return(json(r, 200, [message |-> "Posts fetched successfully from external API"]))

\* GET /api/posts/:id
postById(r) ==
    CASE r.pc = "start" -> await(r, "response", {"posts"})
      [] r.pc = "response" ->
             IF awaited(r) = "rejected"
             THEN return(json(r, 500, [error |-> "Failed to fetch post"]))
             ELSE IF r.ops["posts"] # "ok"
             THEN return(json(r, 404, [error |-> "Post not found"]))
             ELSE await(r, "body", {"postsBody"})
      [] r.pc = "body" ->
             IF awaited(r) = "rejected"
             THEN return(json(r, 500, [error |-> "Failed to fetch post"]))
             ELSE return(json(r, 200, [message |-> "Post fetched successfully"]))

\* The handler of with-posts if it started both fetches on arrival.
userWithPosts_Parallel(r) ==
    CASE r.pc = "start" -> await(r, "userResponse", {"users", "posts"})
      [] r.pc = "userResponse" ->
             IF awaited(r) = "rejected"
             THEN return(json(r, 500, [error |-> "Failed to fetch data"]))
             ELSE IF r.ops["users"] # "ok"
             THEN return(json(r, 404, [error |-> "User not found"]))
             ELSE await(r, "user", {"usersBody"})
      [] r.pc = "user" ->
             IF awaited(r) = "rejected"
             THEN return(json(r, 500, [error |-> "Failed to fetch data"]))
             ELSE await(r, "posts", {"postsBody"})
      [] r.pc = "posts" ->
             IF awaited(r) = "rejected" \/ r.ops["postsBody"] # "array"
             THEN return(json(r, 500, [error |-> "Failed to fetch data"]))
             ELSE return(json(r, 200, [message |-> "User and posts fetched successfully (sequential)"]))

\* GET /api/user/:id/with-posts
userWithPosts(r) ==
    CASE r.pc = "start" -> await(r, "userResponse", {"users"})
      [] r.pc = "userResponse" ->
             IF awaited(r) = "rejected"
             THEN return(json(r, 500, [error |-> "Failed to fetch data"]))
             ELSE IF r.ops["users"] # "ok"
             THEN return(json(r, 404, [error |-> "User not found"]))
             ELSE await(r, "user", {"usersBody"})
      [] r.pc = "user" ->
             IF awaited(r) = "rejected"
             THEN return(json(r, 500, [error |-> "Failed to fetch data"]))
             ELSE await(r, "postsResponse", {"posts"})
      [] r.pc = "postsResponse" ->
             IF awaited(r) = "rejected"
             THEN return(json(r, 500, [error |-> "Failed to fetch data"]))
             ELSE await(r, "posts", {"postsBody"})
      [] r.pc = "posts" ->
             IF awaited(r) = "rejected" \/ r.ops["postsBody"] # "array"
             THEN return(json(r, 500, [error |-> "Failed to fetch data"]))
             ELSE return(json(r, 200, [message |-> "User and posts fetched successfully (sequential)"]))

\* The handler of the dashboard if it did not look at response.ok.
dashboard_NoOkCheck(r) ==
    CASE r.pc = "start" -> await(r, "responses", {"posts", "users", "comments"})
      [] r.pc = "responses" ->
             IF awaited(r) = "rejected"
             THEN return(json(r, 500, [error |-> "Failed to fetch dashboard data"]))
             ELSE await(r, "bodies", {"postsBody", "usersBody", "commentsBody"})
      [] r.pc = "bodies" ->
             IF awaited(r) = "rejected"
             THEN return(json(r, 500, [error |-> "Failed to fetch dashboard data"]))
             ELSE return(json(r, 200,
                      [message |-> "Dashboard data fetched successfully (parallel)",
                       stats |-> {"totalPosts", "totalUsers", "totalComments"}]))

\* GET /api/dashboard
dashboard(r) ==
    CASE r.pc = "start" -> await(r, "responses", {"posts", "users", "comments"})
      [] r.pc = "responses" ->
             IF \/ awaited(r) = "rejected"
                \/ \E f \in {"posts", "users", "comments"} : r.ops[f] # "ok"
             THEN return(json(r, 500, [error |-> "Failed to fetch dashboard data"]))
             ELSE await(r, "bodies", {"postsBody", "usersBody", "commentsBody"})
      [] r.pc = "bodies" ->
             IF awaited(r) = "rejected"
             THEN return(json(r, 500, [error |-> "Failed to fetch dashboard data"]))
             ELSE return(json(r, 200,
                      [message |-> "Dashboard data fetched successfully (parallel)",
                       stats |-> {"totalPosts", "totalUsers", "totalComments"}]))

\* GET /api/error-demo/:type
errorDemo(r) ==
    CASE r.pc = "start" ->
             IF r.param = "timeout" THEN await(r, "timer", {"timer"})
             ELSE IF r.param = "invalid" THEN await(r, "fetch", {"invalid"})
             ELSE return(json(r, 200, [message |-> "No error triggered"]))
      [] r.pc \in {"timer", "fetch"} ->
             IF awaited(r) = "rejected"
             THEN return(json(r, 500, [error |-> "An error occurred"]))
             ELSE return(r)

\* GET /api/old-way: the same steps as then-callbacks.
oldWay(r) ==
    CASE r.pc = "start" -> await(r, "response", {"posts"})
      [] r.pc = "response" ->
             IF awaited(r) = "rejected" \/ r.ops["posts"] # "ok"
             THEN return(json(r, 500, [error |-> "Failed to fetch data"]))
             ELSE await(r, "body", {"postsBody"})
      [] r.pc = "body" ->
             IF awaited(r) = "rejected"
             THEN return(json(r, 500, [error |-> "Failed to fetch data"]))
             ELSE return(json(r, 200, [message |-> "Fetched with .then() chains (the old way)"]))

\* The handler of r's route runs from r.pc to its next await or to its end.
run(r) ==
    CASE r.route = "GET /api/basic" -> basic(r)
      [] r.route = "GET /api/posts" -> posts(r)
      [] r.route = "GET /api/posts/:id" -> postById(r)
      [] r.route = "GET /api/user/:id/with-posts" -> userWithPosts(r)
      [] r.route = "GET /api/dashboard" -> dashboard(r)
      [] r.route = "GET /api/error-demo/:type" -> errorDemo(r)
      [] r.route = "GET /api/old-way" -> oldWay(r)
      [] r.route = "GET /" -> return(json(r, 200, [message |-> "Async/Await Learning Server"]))
      [] r.route = "any other request" -> return(json(r, 404, [error |-> "Endpoint not found"]))

\* A request reaches the async server once the handler of the one before it
\* has returned, and its handler runs to its first await or to its end.
AsyncRequest(route, param) ==
    /\ IF areq = None THEN TRUE ELSE areq.pc = "end"
    /\ areq' = run(arrival(route, param))
    /\ UNCHANGED <<authVars, productVars, routingVars, sqlVars>>

\* A timer fires or a fetch or response.json() ends, whether or not the
\* handler still waits for it.
AsyncSettle(op, outcome) ==
    /\ areq # None
    /\ areq.ops[op] = "pending"
    /\ outcome \in Outcomes(areq, op)
    /\ areq' = [areq EXCEPT !.ops[op] = outcome]
    /\ UNCHANGED <<authVars, productVars, routingVars, sqlVars>>

\* The promise the handler awaits is settled: the handler goes on.
AsyncResume ==
    /\ areq # None
    /\ areq.pc \notin {"start", "end"}
    /\ awaited(areq) # "pending"
    /\ areq' = run(areq)
    /\ UNCHANGED <<authVars, productVars, routingVars, sqlVars>>

AsyncSettles ==
    \E op \in AsyncOps, outcome \in {"resolved", "rejected", "ok", "notok",
                                     "array", "object"} :
        AsyncSettle(op, outcome)

NextAsync ==
    \/ \E route \in {"GET /api/basic", "GET /api/posts", "GET /api/old-way",
                     "GET /api/dashboard", "GET /", "any other request"} :
           AsyncRequest(route, "")
    \/ \E route \in {"GET /api/posts/:id", "GET /api/user/:id/with-posts"} :
           AsyncRequest(route, "1")
    \/ \E type \in {"timeout", "invalid", "other"} :
           AsyncRequest("GET /api/error-demo/:type", type)
    \/ AsyncSettles
    \/ AsyncResume

\* Every timer fires and every fetch and response.json() ends, and the event
\* loop then runs the continuation that waits for it.
SpecAsync ==
    Init /\ [][NextAsync]_vars /\ WF_vars(AsyncSettles) /\ WF_vars(AsyncResume)

\* ------------------------------------------------------ claims: async server

\* The async server is serving a request of this route.
Serving(route) == areq # None /\ areq.route = route

\* C24: every request to GET /api/error-demo/:type eventually receives
\* exactly one response, whatever :type is and whether the simulated or
\* external operation resolves or rejects.
C24_ErrorDemoAnsweredOnce ==
    /\ [](Serving("GET /api/error-demo/:type") => Len(areq.res) <= 1)
    /\ \A type \in {"timeout", "invalid", "other"} :
           (Serving("GET /api/error-demo/:type") /\ areq.param = type)
               ~> (Serving("GET /api/error-demo/:type") /\ areq.param = type /\ Len(areq.res) = 1)

\* C25: in GET /api/user/:id/with-posts the posts fetch is started only after
\* the user fetch has completed with an ok response; when the user response
\* is not ok the handler answers 404 and never starts the posts fetch; and in
\* every case exactly one response is sent.
C25_PostsFetchAfterUserOk ==
    /\ [](Serving("GET /api/user/:id/with-posts") =>
            /\ areq.ops["posts"] # "idle" => areq.ops["users"] = "ok"
            /\ Len(areq.res) <= 1
            /\ areq.pc = "end" => Len(areq.res) = 1
            /\ (areq.pc = "end" /\ areq.ops["users"] = "notok") =>
                   /\ areq.res[1].status = 404
                   /\ areq.ops["posts"] = "idle")
    /\ Serving("GET /api/user/:id/with-posts")
           ~> (Serving("GET /api/user/:id/with-posts") /\ Len(areq.res) = 1)

\* The user fetch was ok, the posts fetch followed it, and the one response
\* is the 200.
C25_Witness ==
    /\ Serving("GET /api/user/:id/with-posts")
    /\ areq.pc = "end"
    /\ areq.ops["users"] = "ok" /\ areq.ops["posts"] \in {"ok", "notok"}
    /\ Len(areq.res) = 1 /\ areq.res[1].status = 200

DashboardFetches == {"posts", "users", "comments"}

\* C26: GET /api/dashboard starts its three fetches together and answers 200
\* with the three totals only if all three fetches resolve with ok responses
\* and all three bodies parse; if any one rejects or is not ok it answers 500;
\* and in every completion order of the fetches exactly one response is sent.
C26_DashboardAllOrError ==
    /\ [](Serving("GET /api/dashboard") =>
            /\ \A f \in DashboardFetches : areq.ops[f] # "idle"
            /\ Len(areq.res) <= 1
            /\ areq.pc = "end" =>
                   Len(areq.res) = 1 /\ areq.res[1].status \in {200, 500}
            /\ (Len(areq.res) = 1 /\ areq.res[1].status = 200) =>
                   /\ \A f \in DashboardFetches : areq.ops[f] = "ok"
                   /\ \A b \in Bodies : areq.ops[b] \in {"array", "object"}
                   /\ areq.res[1].body.stats =
                          {"totalPosts", "totalUsers", "totalComments"}
            /\ (areq.pc = "end" /\ \E f \in DashboardFetches :
                                       areq.ops[f] \in {"rejected", "notok"}) =>
                   areq.res[1].status = 500)
    /\ Serving("GET /api/dashboard") ~> (Serving("GET /api/dashboard") /\ Len(areq.res) = 1)

\* One fetch rejected and the 500 was sent while another fetch had not ended,
\* which then ended with a response that is not ok.
C26_Witness ==
    /\ Serving("GET /api/dashboard")
    /\ areq.pc = "end"
    /\ Len(areq.res) = 1 /\ areq.res[1].status = 500
    /\ areq.ops["posts"] = "rejected"
    /\ areq.ops["users"] = "notok"
    /\ areq.ops["comments"] = "pending"

\* -------------------------------------------------------------- SQL server

\* The largest value the AUTOINCREMENT counter of users reaches.
MaxUserSeq == 7


\* A statement's outcome: the database after it, the SqliteError it threw
\* (None if none), and what run() returns.
Ran(d, changes, lastInsertRowid) ==
    [db |-> d, error |-> None, changes |-> changes,
     lastInsertRowid |-> lastInsertRowid]
Threw(d, message) ==
    [db |-> d, error |-> [message |-> message], changes |-> 0,
     lastInsertRowid |-> 0]

\* CREATE TABLE IF NOT EXISTS users ..., posts ...: two empty tables when
\* database.db is new, nothing when it has them.
createTables(d) ==
    IF d = None
    THEN [users |-> <<>>, posts |-> <<>>, seq |-> [users |-> 0, posts |-> 0]]
    ELSE d

\* SELECT * FROM users WHERE id = ? : the positions of the matching rows.
usersWhereId(d, userId) ==
    {i \in 1..Len(d.users) : JsNumber(100 * d.users[i].id) = userId}

\* The INSERT into users with the id left to SQLite, as it fails on the
\* UNIQUE column only when asked to.
sqlInsertUser_NoUnique(d, name, email) ==
    LET id == d.seq.users + 1 IN
    Ran([d EXCEPT !.users = Append(d.users,
                                 [id |-> id, name |-> name, email |-> email]),
                  !.seq.users = id],
        1, id)

\* INSERT INTO users (name, email) VALUES (?, ?): email is UNIQUE, id is
\* INTEGER PRIMARY KEY AUTOINCREMENT, one more than the largest id the table
\* ever held.
sqlInsertUser(d, name, email) ==
    IF \E i \in 1..Len(d.users) : d.users[i].email = email
    THEN Threw(d, "UNIQUE constraint failed: users.email")
    ELSE LET id == d.seq.users + 1 IN
         Ran([d EXCEPT !.users = Append(d.users,
                                 [id |-> id, name |-> name, email |-> email]),
                       !.seq.users = id],
             1, id)

\* INSERT INTO posts (user_id, title, content) VALUES (?, ?, ?): user_id is a
\* FOREIGN KEY into users(id), which better-sqlite3 enforces.
sqlInsertPost(d, user_id, title) ==
    IF ~\E i \in 1..Len(d.users) : d.users[i].id = user_id
    THEN Threw(d, "FOREIGN KEY constraint failed")
    ELSE LET id == d.seq.posts + 1 IN
         Ran([d EXCEPT !.posts = Append(d.posts,
                                 [id |-> id, user_id |-> user_id, title |-> title]),
                       !.seq.posts = id],
             1, id)

\* UPDATE users SET name = ?, email = ? WHERE id = ?
sqlUpdateUser(d, name, email, userId) ==
    LET hit == usersWhereId(d, userId) IN
    IF \E i \in hit, j \in 1..Len(d.users) : j # i /\ d.users[j].email = email
    THEN Threw(d, "UNIQUE constraint failed: users.email")
    ELSE Ran([d EXCEPT !.users =
                 [i \in 1..Len(d.users) |->
                     IF i \in hit
                     THEN [d.users[i] EXCEPT !.name = name, !.email = email]
                     ELSE d.users[i]]],
             Cardinality(hit), 0)

\* The rows of a table whose column is not the given number, in their order.
RECURSIVE rowsWhereNot(_, _, _)
rowsWhereNot(rows, column, userId) ==
    IF rows = <<>> THEN <<>>
    ELSE IF JsNumber(100 * Head(rows)[column]) # userId
    THEN <<Head(rows)>> \o rowsWhereNot(Tail(rows), column, userId)
    ELSE rowsWhereNot(Tail(rows), column, userId)

\* The DELETE on users as it runs when foreign keys are not enforced: the
\* posts stay.
sqlDeleteUser_NoCascade(d, userId) ==
    Ran([d EXCEPT !.users = rowsWhereNot(d.users, "id", userId)],
        Cardinality(usersWhereId(d, userId)), 0)

\* DELETE FROM users WHERE id = ? : posts.user_id is declared ON DELETE
\* CASCADE, so the posts of a deleted user go with it.
sqlDeleteUser(d, userId) ==
    Ran([d EXCEPT !.users = rowsWhereNot(d.users, "id", userId),
                  !.posts = rowsWhereNot(d.posts, "user_id", userId)],
        Cardinality(usersWhereId(d, userId)), 0)

SampleUsers ==
    << [name |-> "Alice Johnson", email |-> "alice@example.com"],
       [name |-> "Bob Smith", email |-> "bob@example.com"],
       [name |-> "Charlie Brown", email |-> "charlie@example.com"] >>

SamplePosts ==
    << [user_id |-> 1, title |-> "Getting Started with Node.js"],
       [user_id |-> 1, title |-> "Understanding Async/Await"],
       [user_id |-> 2, title |-> "Introduction to SQL"],
       [user_id |-> 2, title |-> "Database Normalization"],
       [user_id |-> 2, title |-> "SQL Joins Explained"],
       [user_id |-> 3, title |-> "REST API Best Practices"] >>

\* insertUser.run(...) three times: each commits on its own, the first that
\* throws ends the function.
RECURSIVE insertUsers(_, _)
insertUsers(d, rows) ==
    IF rows = <<>> THEN Ran(d, 0, 0)
    ELSE LET r == sqlInsertUser(d, Head(rows).name, Head(rows).email) IN
         IF r.error # None THEN r ELSE insertUsers(r.db, Tail(rows))

\* insertPost.run(...) six times, likewise.
RECURSIVE insertPosts(_, _)
insertPosts(d, rows) ==
    IF rows = <<>> THEN Ran(d, 0, 0)
    ELSE LET r == sqlInsertPost(d, Head(rows).user_id, Head(rows).title) IN
         IF r.error # None THEN r ELSE insertPosts(r.db, Tail(rows))

\* insertSampleData(): nothing if users has a row, else the three users and
\* then the six posts with user_id 1, 2, 2, 2, 3 as written in the file.
insertSampleData(d) ==
    IF Len(d.users) > 0 THEN Ran(d, 0, 0)
    ELSE LET u == insertUsers(d, SampleUsers) IN
         IF u.error # None THEN u ELSE insertPosts(u.db, SamplePosts)

\* GET /api/users/:id
sqlGetUser(d, idParam) ==
    LET hit == usersWhereId(d, parseInt(idParam)) IN
    IF hit = {} THEN Response(404, [error |-> "User not found"])
    ELSE Response(200, [message |-> "User found",
                        user |-> d.users[CHOOSE i \in hit : TRUE]])

\* POST /api/users
sqlPostUser(d, name, email) ==
    IF name = Missing \/ email = Missing
    THEN [db |-> d, res |-> Response(400, [error |-> "Name and email are required"])]
    ELSE LET r == sqlInsertUser(d, name, email) IN
         IF r.error = None
         THEN [db |-> r.db,
               res |-> Response(201,
                   [message |-> "User created successfully",
                    user |-> r.db.users[CHOOSE i \in
                        usersWhereId(r.db, JsNumber(100 * r.lastInsertRowid)) : TRUE]])]
         ELSE IF r.error.message = "UNIQUE constraint failed: users.email"
         THEN [db |-> r.db, res |-> Response(400, [error |-> "Email already exists"])]
         ELSE [db |-> r.db, res |-> Response(500, [error |-> "Failed to create user"])]

\* PUT /api/users/:id
sqlPutUser(d, idParam, name, email) ==
    LET userId == parseInt(idParam)
        hit == usersWhereId(d, userId)
    IN IF hit = {}
       THEN [db |-> d, res |-> Response(404, [error |-> "User not found"])]
       ELSE LET existingUser == d.users[CHOOSE i \in hit : TRUE]
                r == sqlUpdateUser(d,
                         IF name = Missing THEN existingUser.name ELSE name,
                         IF email = Missing THEN existingUser.email ELSE email,
                         userId)
            IN IF r.error # None
               THEN [db |-> r.db, res |-> Response(500, [error |-> "Failed to update user"])]
               ELSE IF r.changes > 0
               THEN [db |-> r.db,
                     res |-> Response(200,
                         [message |-> "User updated successfully",
                          user |-> r.db.users[CHOOSE i \in usersWhereId(r.db, userId) : TRUE]])]
               ELSE [db |-> r.db, res |-> Response(500, [error |-> "Update failed"])]

\* DELETE /api/users/:id
sqlDeleteUserRoute(d, idParam) ==
    LET userId == parseInt(idParam)
        hit == usersWhereId(d, userId)
    IN IF hit = {}
       THEN [db |-> d, res |-> Response(404, [error |-> "User not found"])]
       ELSE LET user == d.users[CHOOSE i \in hit : TRUE]
                r == sqlDeleteUser(d, userId)
            IN IF r.changes > 0
               THEN [db |-> r.db,
                     res |-> Response(200, [message |-> "User deleted successfully",
                                            user |-> user])]
               ELSE [db |-> r.db, res |-> Response(500, [error |-> "Delete failed"])]


\* node index.js: require('./database') creates the tables and inserts the
\* sample data; an exception thrown there ends the process before
\* app.listen.
SqlStart ==
    /\ server # "listening"
    /\ LET d == createTables(db) IN
         /\ Len(d.users) = 0 => d.seq.users + Len(SampleUsers) <= MaxUserSeq
         /\ LET r == insertSampleData(d) IN
              /\ db' = r.db
              /\ server' = IF r.error = None THEN "listening" ELSE "crashed"
    /\ sqlReply' = None
    /\ UNCHANGED <<authVars, productVars, routingVars, asyncVars>>

\* The process is stopped; database.db stays on disk.
SqlStop ==
    /\ server = "listening"
    /\ server' = "off"
    /\ UNCHANGED <<db, sqlReply>>
    /\ UNCHANGED <<authVars, productVars, routingVars, asyncVars>>

SqlGetUser(idParam) ==
    /\ server = "listening"
    /\ sqlReply' = [req |-> [route |-> "GET /api/users/:id", id |-> idParam],
                    res |-> sqlGetUser(db, idParam)]
    /\ UNCHANGED <<db, server>>
    /\ UNCHANGED <<authVars, productVars, routingVars, asyncVars>>

SqlPostUser(name, email) ==
    /\ server = "listening"
    /\ db.seq.users < MaxUserSeq
    /\ LET o == sqlPostUser(db, name, email) IN
         /\ db' = o.db
         /\ sqlReply' = [req |-> [route |-> "POST /api/users", name |-> name,
                                  email |-> email],
                         res |-> o.res]
    /\ UNCHANGED server
    /\ UNCHANGED <<authVars, productVars, routingVars, asyncVars>>

SqlPutUser(idParam, name, email) ==
    /\ server = "listening"
    /\ LET o == sqlPutUser(db, idParam, name, email) IN
         /\ db' = o.db
         /\ sqlReply' = [req |-> [route |-> "PUT /api/users/:id", id |-> idParam,
                                  name |-> name, email |-> email],
                         res |-> o.res]
    /\ UNCHANGED server
    /\ UNCHANGED <<authVars, productVars, routingVars, asyncVars>>

SqlDeleteUser(idParam) ==
    /\ server = "listening"
    /\ LET o == sqlDeleteUserRoute(db, idParam) IN
         /\ db' = o.db
         /\ sqlReply' = [req |-> [route |-> "DELETE /api/users/:id", id |-> idParam],
                         res |-> o.res]
    /\ UNCHANGED server
    /\ UNCHANGED <<authVars, productVars, routingVars, asyncVars>>

NextSql ==
    \/ SqlStart
    \/ SqlStop
    \/ \E idParam \in {"1", "2", "3", "4", "x"} :
           \/ SqlGetUser(idParam)
           \/ SqlDeleteUser(idParam)
           \/ \E name \in {Missing, "Dave"},
                 email \in {Missing, "alice@example.com", "dave@example.com"} :
                  SqlPutUser(idParam, name, email)
    \/ \E name \in {Missing, "Dave"},
          email \in {Missing, "alice@example.com", "dave@example.com"} :
           SqlPostUser(name, email)

SpecSql == Init /\ [][NextSql]_vars

\* -------------------------------------------------------- claims: SQL server

\* The rows of a table, as a set.
RowsOf(table) == {table[i] : i \in 1..Len(table)}

\* The step is the SQL server answering a request of this route.
SqlAnswers(route) ==
    /\ sqlReply' # None
    /\ sqlReply'.req.route = route

\* C27: after any sequence of user create, update and delete requests every
\* post's user_id refers to an existing user; deleting a user removes all of
\* that user's posts and no post of any other user.
C27_PostsReferToUsers ==
    [][/\ db' # None =>
            \A p \in RowsOf(db'.posts) :
                \E u \in RowsOf(db'.users) : u.id = p.user_id
       /\ (/\ SqlAnswers("DELETE /api/users/:id")
           /\ SqlDeleteUser(sqlReply'.req.id)
           /\ sqlReply'.res.status = 200) =>
              LET deleted == sqlReply'.res.body.user IN
              /\ deleted \in RowsOf(db.users)
              /\ RowsOf(db'.users) = RowsOf(db.users) \ {deleted}
              /\ RowsOf(db'.posts) =
                     {p \in RowsOf(db.posts) : p.user_id # deleted.id}
              /\ Len(db'.posts) = Cardinality(RowsOf(db'.posts))
      ]_vars

\* Bob was deleted: his three posts went, the three of Alice and Charlie stay.
C27_Witness ==
    /\ sqlReply # None
    /\ sqlReply.req.route = "DELETE /api/users/:id"
    /\ sqlReply.res.status = 200
    /\ sqlReply.res.body.user.name = "Bob Smith"
    /\ Len(db.posts) = 3
    /\ Len(db.users) = 2

\* Some user other than the one at position i holds the email.
HeldByOther(d, email, i) ==
    \E j \in 1..Len(d.users) : j # i /\ d.users[j].email = email

\* C28: after any sequence of POST, PUT and DELETE on /api/users no two users
\* share an email; a POST or PUT that would give a user an email already held
\* by another user is rejected and leaves both tables unchanged, and for POST
\* the rejection is 400 'Email already exists'.
C28_EmailsStayUnique ==
    [][/\ db' # None =>
            \A i \in 1..Len(db'.users) :
                ~HeldByOther(db', db'.users[i].email, i)
       /\ (/\ SqlAnswers("POST /api/users")
           /\ SqlPostUser(sqlReply'.req.name, sqlReply'.req.email)
           /\ sqlReply'.req.name # Missing
           /\ sqlReply'.req.email # Missing
           /\ HeldByOther(db, sqlReply'.req.email, 0)) =>
              /\ sqlReply'.res = Response(400, [error |-> "Email already exists"])
              /\ db'.users = db.users /\ db'.posts = db.posts
       /\ (/\ SqlAnswers("PUT /api/users/:id")
           /\ SqlPutUser(sqlReply'.req.id, sqlReply'.req.name, sqlReply'.req.email)
           /\ sqlReply'.req.email # Missing
           /\ \E i \in usersWhereId(db, parseInt(sqlReply'.req.id)) :
                  HeldByOther(db, sqlReply'.req.email, i)) =>
              /\ sqlReply'.res.status >= 400
              /\ db'.users = db.users /\ db'.posts = db.posts
      ]_vars

\* A POST with Alice's email was refused while Alice is in the table.
C28_Witness ==
    /\ sqlReply # None
    /\ sqlReply.req.route = "POST /api/users"
    /\ sqlReply.req.email = "alice@example.com"
    /\ sqlReply.res = Response(400, [error |-> "Email already exists"])
    /\ \E u \in RowsOf(db.users) : u.email = "alice@example.com"

\* The number of posts of the user of this name.
PostsOwnedBy(d, name) ==
    Cardinality({p \in RowsOf(d.posts) :
                    \E u \in RowsOf(d.users) : u.name = name /\ u.id = p.user_id})

\* C30: on every server start at which the users table is empty (the first
\* run, or a later start after every user was deleted through the API) the
\* initialization completes and leaves exactly 3 sample users and 6 sample
\* posts, Alice owning 2, Bob 3 and Charlie 1; on a start with a non-empty
\* users table it inserts nothing.
C30_StartSeedsSampleData ==
    [][SqlStart =>
          IF (IF db = None THEN TRUE ELSE Len(db.users) = 0)
          THEN /\ server' = "listening"
               /\ Len(db'.users) = 3
               /\ Len(db'.posts) = 6
               /\ PostsOwnedBy(db', "Alice Johnson") = 2
               /\ PostsOwnedBy(db', "Bob Smith") = 3
               /\ PostsOwnedBy(db', "Charlie Brown") = 1
          ELSE db' = db
      ]_vars

====
